---- MODULE Spec2Model ----
(***************************************************************************)
(* Model of the POST /pinecone-query handler of the Pinecone forwarding    *)
(* service (production revision src/unnamed/part_002, with the resolver of *)
(* the debug revision src/unnamed/part_003 and the earlier full revision   *)
(* src/unnamed/part_000 beside it).                                        *)
(*                                                                         *)
(* JavaScript values are tagged records; strings are sequences of          *)
(* one-character strings, so that startsWith, replace and                  *)
(* encodeURIComponent are computed as the code computes them.              *)
(***************************************************************************)
EXTENDS Integers, Sequences, FiniteSets, TLC

VARIABLES env, rev, pc, req, outbound, replies, envLog, caught, inflight, locals, alive

vars == <<env, rev, pc, req, outbound, replies, envLog, caught, inflight, locals, alive>>

(***************************************************************************)
(* JavaScript values                                                       *)
(***************************************************************************)
Undef == [t |-> "undefined"]
Null == [t |-> "null"]
NaN == [t |-> "NaN"]
Str(s) == [t |-> "string", s |-> s]
Num(n) == [t |-> "number", n |-> n]
Bool(b) == [t |-> "boolean", b |-> b]
Arr(a) == [t |-> "array", a |-> a]
Obj(o) == [t |-> "object", o |-> o]

\* the empty object {} : a function with no key
NoKeys == [k \in {} |-> Undef]

\* typeof v
TypeOf(v) ==
    CASE v.t = "undefined" -> "undefined"
      [] v.t = "string" -> "string"
      [] v.t = "number" -> "number"
      [] v.t = "NaN" -> "number"
      [] v.t = "boolean" -> "boolean"
      [] OTHER -> "object"

\* ToBoolean(v): what `!v`, `v && ...`, `v || ...` and `v ? :` test
Truthy(v) ==
    CASE v.t = "undefined" -> FALSE
      [] v.t = "null" -> FALSE
      [] v.t = "NaN" -> FALSE
      [] v.t = "string" -> Len(v.s) > 0
      [] v.t = "number" -> v.n # 0
      [] v.t = "boolean" -> v.b
      [] OTHER -> TRUE

\* a || b
Or(a, b) == IF Truthy(a) THEN a ELSE b

\* Array.isArray(v)
IsArray(v) == v.t = "array"

\* v[k] for a property name k that is not `length`
Prop(v, k) == IF v.t = "object" /\ k \in DOMAIN v.o THEN v.o[k] ELSE Undef

\* v.length
LengthOf(v) ==
    CASE v.t = "array" -> Num(Len(v.a))
      [] v.t = "string" -> Num(Len(v.s))
      [] OTHER -> Prop(v, "length")

\* Object.keys(v).length for a truthy v
KeyCount(v) ==
    CASE v.t = "object" -> Cardinality(DOMAIN v.o)
      [] v.t = "array" -> Len(v.a)
      [] v.t = "string" -> Len(v.s)
      [] OTHER -> 0

Digits == <<"0", "1", "2", "3", "4", "5", "6", "7", "8", "9">>

DigitValue(c) == (CHOOSE i \in 1..Len(Digits) : Digits[i] = c) - 1

IsDigit(c) == \E i \in 1..Len(Digits) : Digits[i] = c

RECURSIVE DecimalValue(_)
DecimalValue(s) ==
    IF Len(s) = 0 THEN 0
    ELSE DecimalValue(SubSeq(s, 1, Len(s) - 1)) * Len(Digits) + DigitValue(s[Len(s)])

\* ToNumber(v), the coercion Math.min applies to its arguments; a string is
\* read as an unsigned decimal numeral, any other non-empty string is NaN
ToNumber(v) ==
    CASE v.t = "number" -> v
      [] v.t = "NaN" -> NaN
      [] v.t = "undefined" -> NaN
      [] v.t = "null" -> Num(0)
      [] v.t = "boolean" -> Num(IF v.b THEN 1 ELSE 0)
      [] v.t = "string" ->
            IF \A i \in 1..Len(v.s) : IsDigit(v.s[i]) THEN Num(DecimalValue(v.s)) ELSE NaN
      [] OTHER -> NaN

\* Math.min(a, b)
MathMin(a, b) ==
    LET x == ToNumber(a)
        y == ToNumber(b)
    IN  IF x.t = "NaN" \/ y.t = "NaN" THEN NaN
        ELSE IF x.n <= y.n THEN x ELSE y

(***************************************************************************)
(* Strings                                                                 *)
(***************************************************************************)
\* s.startsWith(p)
StartsWith(s, p) == Len(s) >= Len(p) /\ SubSeq(s, 1, Len(p)) = p

\* s.indexOf(p), 1-based; 0 when p does not occur in s
IndexOf(s, p) ==
    LET hits == {i \in 1..(Len(s) - Len(p) + 1) : SubSeq(s, i, i + Len(p) - 1) = p}
    IN  IF hits = {} THEN 0 ELSE CHOOSE i \in hits : \A j \in hits : i <= j

\* s.replace(p, r) with a string pattern: the first occurrence only
ReplaceFirst(s, p, r) ==
    LET i == IndexOf(s, p)
    IN  IF i = 0 THEN s
        ELSE SubSeq(s, 1, i - 1) \o r \o SubSeq(s, i + Len(p), Len(s))

(***************************************************************************)
(* String literals of the program, as character sequences                  *)
(***************************************************************************)
HttpsPrefix == <<"h", "t", "t", "p", "s", ":", "/", "/">>

RecordsPath == <<"/", "r", "e", "c", "o", "r", "d", "s", "/",
                 "n", "a", "m", "e", "s", "p", "a", "c", "e", "s", "/">>

SearchPath == <<"/", "s", "e", "a", "r", "c", "h">>

DefaultNamespace == <<"_", "_", "d", "e", "f", "a", "u", "l", "t", "_", "_">>

Text == <<"t", "e", "x", "t">>

Vector == <<"v", "e", "c", "t", "o", "r">>

Id == <<"i", "d">>

DefaultTopK == 10

TopKMax == 10000

RerankTopNMax == 100

\* a UTF-16 code unit that is half of a surrogate pair, on its own
LoneSurrogate == "<D800>"

\* the characters of the model's alphabet that encodeURIComponent escapes
PercentCode ==
    [c \in {" ", "/", ":"} |->
        CASE c = " " -> <<"%", "2", "0">>
          [] c = "/" -> <<"%", "2", "F">>
          [] c = ":" -> <<"%", "3", "A">>]

\* a plausible slip: the namespace put in the URL as given
EncodeCharsNone(s) == s

RECURSIVE EncodeChars(_)
EncodeChars(s) ==
    IF Len(s) = 0 THEN <<>>
    ELSE (IF Head(s) \in DOMAIN PercentCode THEN PercentCode[Head(s)] ELSE <<Head(s)>>)
         \o EncodeChars(Tail(s))

RECURSIVE DecimalDigits(_)
DecimalDigits(n) ==
    IF n < Len(Digits) THEN <<Digits[n + 1]>>
    ELSE DecimalDigits(n \div Len(Digits)) \o <<Digits[(n % Len(Digits)) + 1]>>

\* JsToString(v), as a template literal and encodeURIComponent apply it
JsToString(v) ==
    CASE v.t = "string" -> v.s
      [] v.t = "undefined" -> <<"u", "n", "d", "e", "f", "i", "n", "e", "d">>
      [] v.t = "null" -> <<"n", "u", "l", "l">>
      [] v.t = "NaN" -> <<"N", "a", "N">>
      [] v.t = "boolean" -> IF v.b THEN <<"t", "r", "u", "e">> ELSE <<"f", "a", "l", "s", "e">>
      [] v.t = "number" -> IF v.n < 0 THEN <<"-">> \o DecimalDigits(0 - v.n)
                           ELSE DecimalDigits(v.n)
      [] OTHER -> <<"[object Object]">>

\* encodeURIComponent(v): throws URIError on a lone surrogate
EncodeURIComponent(v) ==
    LET s == JsToString(v)
    IN  IF \E i \in 1..Len(s) : s[i] = LoneSurrogate
        THEN [ok |-> FALSE, s |-> <<>>]
        ELSE [ok |-> TRUE, s |-> EncodeChars(s)]

(***************************************************************************)
(* process.env                                                             *)
(***************************************************************************)
\* process.env[name]: a string, or undefined when the variable is not set
EnvGet(name) == IF name \in DOMAIN env THEN Str(env[name]) ELSE Undef

\* a === b
StrictEq(a, b) == a.t = b.t /\ a = b

\* v > 0, after ToNumber
GreaterThanZero(v) == LET x == ToNumber(v) IN x.t = "number" /\ x.n > 0

\* a destructuring default: used when the property is absent (undefined)
Default(v, d) == IF v.t = "undefined" THEN d ELSE v

\* one-chunk string constants whose characters the program never inspects
Lit(text) == Str(<<text>>)

(***************************************************************************)
(* What the synchronous part of a handler ends in                          *)
(***************************************************************************)
Reply(status, body) == [kind |-> "reply", status |-> status, body |-> body]

Call(url, payload, apiKey, timeout) ==
    [kind |-> "call", url |-> url, payload |-> payload, apiKey |-> apiKey, timeout |-> timeout]

Throw(error) == [kind |-> "throw", error |-> error]

\* an Error that is not an axios error: no response, no code, no config
PlainError(message) ==
    [response |-> Undef, code |-> Undef, message |-> Lit(message), config |-> Undef]

QueryTimeoutMs == 30000

\* a segment of an async handler ends in an await, or its promise rejects
Await(call, held) == [kind |-> "await", call |-> call, held |-> held]

Rejects(error) == [kind |-> "rejects", error |-> error]

\* what an awaited axios.post settles to
ResolvedWith(data) == [kind |-> "resolved", data |-> data]

RejectedWith(failure) == [kind |-> "rejected", failure |-> failure]

\* the calls made so far, the last one marked with what it settled to
Settled(calls, settled) == [calls EXCEPT ![Len(calls)] = @ @@ [settled |-> settled]]

(***************************************************************************)
(* Production revision (part_002): credential resolution                   *)
(***************************************************************************)
\* process.env.PINECONE_API_KEY || process.env.PINECONE_KEY || process.env.API_KEY
\* a plausible slip: the first name alone, without its alternatives
PineconeApiKeyFirstOnly == EnvGet("PINECONE_API_KEY")

PineconeApiKey ==
    Or(Or(EnvGet("PINECONE_API_KEY"), EnvGet("PINECONE_KEY")), EnvGet("API_KEY"))

\* process.env.PINECONE_INDEX_HOST || process.env.PINECONE_HOST || process.env.INDEX_HOST
RawIndexHost ==
    Or(Or(EnvGet("PINECONE_INDEX_HOST"), EnvGet("PINECONE_HOST")), EnvGet("INDEX_HOST"))

RECURSIVE ReplaceEvery(_, _, _)
ReplaceEvery(s, p, r) ==
    IF IndexOf(s, p) = 0 THEN s ELSE ReplaceEvery(ReplaceFirst(s, p, r), p, r)

\* a plausible slip: every "https://" removed, as replaceAll or /https:\/\//g do
CleanHostEvery(h) ==
    IF Truthy(h) /\ StartsWith(h.s, HttpsPrefix)
    THEN Str(ReplaceEvery(h.s, HttpsPrefix, <<>>))
    ELSE h

\* "Clean up the host if it has https://"
CleanHost(h) ==
    IF Truthy(h) /\ StartsWith(h.s, HttpsPrefix)
    THEN Str(ReplaceFirst(h.s, HttpsPrefix, <<>>))
    ELSE h

PineconeIndexHost == CleanHost(RawIndexHost)

\* the apiKeySource of the 'Environment variables check' log entry
ApiKeySource(pineconeApiKey) ==
    IF Truthy(pineconeApiKey)
    THEN (IF Truthy(EnvGet("PINECONE_API_KEY")) THEN "PINECONE_API_KEY"
          ELSE IF Truthy(EnvGet("PINECONE_KEY")) THEN "PINECONE_KEY"
          ELSE IF Truthy(EnvGet("API_KEY")) THEN "API_KEY"
          ELSE "unknown")
    ELSE "none"

\* the hostSource of the 'Environment variables check' log entry
HostSource(pineconeIndexHost) ==
    IF Truthy(pineconeIndexHost)
    THEN (IF Truthy(EnvGet("PINECONE_INDEX_HOST")) THEN "PINECONE_INDEX_HOST"
          ELSE IF Truthy(EnvGet("PINECONE_HOST")) THEN "PINECONE_HOST"
          ELSE IF Truthy(EnvGet("INDEX_HOST")) THEN "INDEX_HOST"
          ELSE "unknown")
    ELSE "none"

\* the 'Environment variables check' log entry
EnvironmentCheck(pineconeApiKey, pineconeIndexHost) ==
    [apiKeyFound |-> Truthy(pineconeApiKey),
     apiKeySource |-> ApiKeySource(pineconeApiKey),
     hostFound |-> Truthy(pineconeIndexHost),
     hostValue |-> pineconeIndexHost,
     hostSource |-> HostSource(pineconeIndexHost)]

\* a plausible slip: the two flags take each other's value
ConfigurationMissingSwapped(pineconeApiKey, pineconeIndexHost) ==
    Reply(500,
          [error |-> "Pinecone configuration missing",
           details |-> [hasApiKey |-> Truthy(pineconeIndexHost),
                        hasIndexHost |-> Truthy(pineconeApiKey),
                        checkedVariables |-> <<"PINECONE_API_KEY", "PINECONE_KEY", "API_KEY",
                                               "PINECONE_INDEX_HOST", "PINECONE_HOST",
                                               "INDEX_HOST">>,
                        availableEnvVars |-> DOMAIN env]])

\* the 500 of a missing configuration
ConfigurationMissing(pineconeApiKey, pineconeIndexHost) ==
    Reply(500,
          [error |-> "Pinecone configuration missing",
           details |-> [hasApiKey |-> Truthy(pineconeApiKey),
                        hasIndexHost |-> Truthy(pineconeIndexHost),
                        checkedVariables |-> <<"PINECONE_API_KEY", "PINECONE_KEY", "API_KEY",
                                               "PINECONE_INDEX_HOST", "PINECONE_HOST",
                                               "INDEX_HOST">>,
                        availableEnvVars |-> DOMAIN env]])

(***************************************************************************)
(* Production revision (part_002): translation of the request              *)
(***************************************************************************)
\* a plausible slip: Math.max where Math.min is meant
ClampTopKMax(top_k) ==
    LET x == ToNumber(top_k)
    IN  IF x.t = "NaN" THEN NaN ELSE IF x.n >= TopKMax THEN x ELSE Num(TopKMax)

\* Math.min(top_k, 10000)
ClampTopK(top_k) == MathMin(top_k, Num(TopKMax))

\* a plausible slip: the body of case "id" under case "text"
TextQueryAsId(query, top_k) ==
    IF TypeOf(query) # "string"
    THEN Reply(400, [error |-> "For text search, query must be a string"])
    ELSE [kind |-> "query", query |-> Obj([id |-> query, top_k |-> ClampTopK(top_k)])]

\* case "text"
TextQuery(query, top_k) ==
    IF TypeOf(query) # "string"
    THEN Reply(400, [error |-> "For text search, query must be a string"])
    ELSE [kind |-> "query",
          query |-> Obj([inputs |-> Obj([text |-> query]), top_k |-> ClampTopK(top_k)])]

\* a plausible slip: the elements of the array are not looked at
VectorQueryUnchecked(query, top_k) ==
    IF ~IsArray(query)
    THEN Reply(400, [error |-> "For vector search, query must be an array of numbers"])
    ELSE [kind |-> "query",
          query |-> Obj([vector |-> Obj([values |-> query]), top_k |-> ClampTopK(top_k)])]

\* case "vector"
VectorQuery(query, top_k) ==
    IF ~IsArray(query) \/ (\E i \in 1..Len(query.a) : TypeOf(query.a[i]) # "number")
    THEN Reply(400, [error |-> "For vector search, query must be an array of numbers"])
    ELSE [kind |-> "query",
          query |-> Obj([vector |-> Obj([values |-> query]), top_k |-> ClampTopK(top_k)])]

\* case "id"
IdQuery(query, top_k) ==
    IF TypeOf(query) # "string"
    THEN Reply(400, [error |-> "For ID search, query must be a record ID string"])
    ELSE [kind |-> "query", query |-> Obj([id |-> query, top_k |-> ClampTopK(top_k)])]

\* the switch on search_type: the query object, or the 400 of a bad request
BuildQuery(search_type, query, top_k) ==
    CASE StrictEq(search_type, Str(Text)) -> TextQuery(query, top_k)
      [] StrictEq(search_type, Str(Vector)) -> VectorQuery(query, top_k)
      [] StrictEq(search_type, Str(Id)) -> IdQuery(query, top_k)
      [] OTHER -> Reply(400, [error |-> "Invalid search_type", received |-> search_type])

\* a plausible slip: the test of the length left out
AddFieldsWhenGiven(payload, fields) ==
    IF Truthy(fields)
    THEN payload @@ [fields |-> fields]
    ELSE payload

\* "Add fields at root level"
AddFields(payload, fields) ==
    IF Truthy(fields) /\ GreaterThanZero(LengthOf(fields))
    THEN payload @@ [fields |-> fields]
    ELSE payload

\* a plausible slip: the filter sent under the name the request gives it
AddFilterAsFilters(payload, filters) ==
    IF Truthy(filters) /\ KeyCount(filters) > 0
    THEN payload @@ [filters |-> filters]
    ELSE payload

\* "Add filters at root level"
AddFilter(payload, filters) ==
    IF Truthy(filters) /\ KeyCount(filters) > 0
    THEN payload @@ [filter |-> filters]
    ELSE payload

\* a plausible slip: top_n defaulting to the cap, whatever top_k is
AddRerankTopNMax(payload, rerank, search_type, top_k, fields) ==
    IF Truthy(rerank) /\ Truthy(Prop(rerank, "model"))
    THEN LET block == [model |-> Or(Prop(rerank, "model"), Lit("bge-reranker-v2-m3")),
                       top_n |-> Or(Prop(rerank, "top_n"), Num(RerankTopNMax)),
                       rank_fields |-> Or(Prop(rerank, "rank_fields"), fields)]
         IN  payload @@
             [rerank |-> Obj(IF ~StrictEq(search_type, Str(Text)) /\ Truthy(Prop(rerank, "query"))
                             THEN block @@ [query |-> Prop(rerank, "query")]
                             ELSE block)]
    ELSE payload

\* a plausible slip: the rerank query passed on for every search type
AddRerankQueryAlways(payload, rerank, search_type, top_k, fields) ==
    IF Truthy(rerank) /\ Truthy(Prop(rerank, "model"))
    THEN LET block == [model |-> Or(Prop(rerank, "model"), Lit("bge-reranker-v2-m3")),
                       top_n |-> Or(Prop(rerank, "top_n"), MathMin(top_k, Num(RerankTopNMax))),
                       rank_fields |-> Or(Prop(rerank, "rank_fields"), fields)]
         IN  payload @@
             [rerank |-> Obj(IF Truthy(Prop(rerank, "query"))
                             THEN block @@ [query |-> Prop(rerank, "query")]
                             ELSE block)]
    ELSE payload

\* "Add reranking if specified"
AddRerank(payload, rerank, search_type, top_k, fields) ==
    IF Truthy(rerank) /\ Truthy(Prop(rerank, "model"))
    THEN LET block == [model |-> Or(Prop(rerank, "model"), Lit("bge-reranker-v2-m3")),
                       top_n |-> Or(Prop(rerank, "top_n"), MathMin(top_k, Num(RerankTopNMax))),
                       rank_fields |-> Or(Prop(rerank, "rank_fields"), fields)]
         IN  payload @@
             [rerank |-> Obj(IF ~StrictEq(search_type, Str(Text)) /\ Truthy(Prop(rerank, "query"))
                             THEN block @@ [query |-> Prop(rerank, "query")]
                             ELSE block)]
    ELSE payload

\* `https://${pineconeIndexHost}/records/namespaces/${encodeURIComponent(namespace)}/search`
PineconeApiUrl(pineconeIndexHost, encodedNamespace) ==
    HttpsPrefix \o JsToString(pineconeIndexHost) \o RecordsPath \o encodedNamespace \o SearchPath

\* the handler from its entry to the await of axios.post, or to an earlier end
PineconeQuery(body) ==
    LET query == body.query
        namespace == Default(body.namespace, Str(DefaultNamespace))
        top_k == Default(body.top_k, Num(DefaultTopK))
        fields == Default(body.fields, Arr(<<>>))
        filters == Default(body.filters, Obj(NoKeys))
        rerank == Default(body.rerank, Null)
        search_type == Default(body.search_type, Str(Text))
        pineconeApiKey == PineconeApiKey
        pineconeIndexHost == PineconeIndexHost
        encoded == EncodeURIComponent(namespace)
        built == BuildQuery(search_type, query, top_k)
    IN  IF ~Truthy(pineconeApiKey) \/ ~Truthy(pineconeIndexHost)
        THEN ConfigurationMissing(pineconeApiKey, pineconeIndexHost)
        ELSE IF ~Truthy(query)
        THEN Reply(400, [error |-> "Query parameter is required"])
        ELSE IF ~encoded.ok
        THEN Throw(PlainError("URI malformed"))
        ELSE IF built.kind = "reply"
        THEN built
        ELSE Call(PineconeApiUrl(pineconeIndexHost, encoded.s),
                  Obj(AddRerank(AddFilter(AddFields([query |-> built.query], fields), filters),
                                rerank, search_type, top_k, fields)),
                  pineconeApiKey,
                  QueryTimeoutMs)

(***************************************************************************)
(* Production revision (part_002): after the provider call                 *)
(***************************************************************************)
\* the own enumerable properties an object spread copies
Spread(v) ==
    CASE v.t = "object" -> v.o
      [] v.t = "array" -> [k \in {Digits[i] : i \in 1..Len(v.a)} |->
                              v.a[CHOOSE i \in 1..Len(v.a) : Digits[i] = k]]
      [] v.t = "string" -> [k \in {Digits[i] : i \in 1..Len(v.s)} |->
                              Str(<<v.s[CHOOSE i \in 1..Len(v.s) : Digits[i] = k]>>)]
      [] OTHER -> NoKeys

\* v?.length
OptionalLength(v) == IF v.t \in {"undefined", "null"} THEN Undef ELSE LengthOf(v)

\* searchResults.result?.hits?.length || 0, for a searchResults that is not null
TotalResults(searchResults) ==
    LET result == Prop(searchResults, "result")
        hits == IF result.t \in {"undefined", "null"} THEN Undef ELSE Prop(result, "hits")
    IN  Or(OptionalLength(hits), Num(0))

\* a plausible slip: the spread written after the metadata block, so that a
\* provider field named metadata takes the place of the block
EnhancedResultsSpreadLast(searchResults, body, pineconeApiUrl) ==
    IF searchResults.t \in {"undefined", "null"}
    THEN Throw(PlainError("Cannot read properties of null (reading 'result')"))
    ELSE Reply(200,
               Spread(searchResults)
               @@ [metadata |->
                      [search_type |-> Default(body.search_type, Str(Text)),
                       namespace |-> Default(body.namespace, Str(DefaultNamespace)),
                       top_k |-> Default(body.top_k, Num(DefaultTopK)),
                       total_results |-> TotalResults(searchResults),
                       has_reranking |-> Truthy(Default(body.rerank, Null)),
                       pinecone_url_used |-> pineconeApiUrl]])

\* the success path after the await: the 200 and its body, or the TypeError
\* of reading `.result` of a null body
EnhancedResults(searchResults, body, pineconeApiUrl) ==
    IF searchResults.t \in {"undefined", "null"}
    THEN Throw(PlainError("Cannot read properties of null (reading 'result')"))
    ELSE Reply(200,
               [metadata |->
                   [search_type |-> Default(body.search_type, Str(Text)),
                    namespace |-> Default(body.namespace, Str(DefaultNamespace)),
                    top_k |-> Default(body.top_k, Num(DefaultTopK)),
                    total_results |-> TotalResults(searchResults),
                    has_reranking |-> Truthy(Default(body.rerank, Null)),
                    pinecone_url_used |-> pineconeApiUrl]]
               @@ Spread(searchResults))

ENOTFOUND == Lit("ENOTFOUND")

ECONNREFUSED == Lit("ECONNREFUSED")

ECONNABORTED == Lit("ECONNABORTED")

\* error.config?.url || 'unknown'
ConfigUrl(error) ==
    Or(IF error.config.t \in {"undefined", "null"} THEN Undef ELSE Prop(error.config, "url"),
       Lit("unknown"))

\* a plausible slip: every provider error answered 500, as the debug revision does
ProviderErrorReply500(error) ==
    Reply(500,
          [error |-> "Pinecone API error",
           details |-> Prop(error.response, "data"),
           status |-> Prop(error.response, "status"),
           statusText |-> Prop(error.response, "statusText"),
           pinecone_url |-> ConfigUrl(error)])

\* if (error.response): the provider's status and body
ProviderErrorReply(error) ==
    Reply(Prop(error.response, "status").n,
          [error |-> "Pinecone API error",
           details |-> Prop(error.response, "data"),
           status |-> Prop(error.response, "status"),
           statusText |-> Prop(error.response, "statusText"),
           pinecone_url |-> ConfigUrl(error)])

\* ENOTFOUND or ECONNREFUSED
UnableToConnectReply(error) ==
    Reply(503,
          [error |-> "Unable to connect to Pinecone API",
           details |-> Lit("Please check your PINECONE_INDEX_HOST configuration"),
           code |-> error.code,
           host_attempted |-> ConfigUrl(error)])

\* ECONNABORTED
TimeoutReply(error) ==
    Reply(504,
          [error |-> "Pinecone API timeout",
           details |-> Lit("Request took longer than 30 seconds"),
           code |-> error.code])

\* a plausible slip: a fixed text where the error's message is meant
InternalErrorReplyFixed(error) ==
    Reply(500,
          [error |-> "Internal server error during Pinecone query",
           message |-> Lit("Internal Server Error")])

\* any other error
InternalErrorReply(error) ==
    Reply(500,
          [error |-> "Internal server error during Pinecone query",
           message |-> error.message])

\* a plausible slip: the error code looked at before the response
MapErrorCodeFirst(error) ==
    IF StrictEq(error.code, ENOTFOUND) \/ StrictEq(error.code, ECONNREFUSED)
    THEN UnableToConnectReply(error)
    ELSE IF StrictEq(error.code, ECONNABORTED)
    THEN TimeoutReply(error)
    ELSE IF Truthy(error.response)
    THEN ProviderErrorReply(error)
    ELSE InternalErrorReply(error)

\* the catch block: the response an error is mapped to
MapError(error) ==
    IF Truthy(error.response)
    THEN ProviderErrorReply(error)
    ELSE IF StrictEq(error.code, ENOTFOUND) \/ StrictEq(error.code, ECONNREFUSED)
    THEN UnableToConnectReply(error)
    ELSE IF StrictEq(error.code, ECONNABORTED)
    THEN TimeoutReply(error)
    ELSE InternalErrorReply(error)

(***************************************************************************)
(* Earlier full revision (part_000)                                        *)
(***************************************************************************)
\* a plausible slip: the namespace put into the URL as it came
PineconeQuery000RawNamespace(body) ==
    LET query == body.query
        namespace == Default(body.namespace, Str(DefaultNamespace))
        top_k == Default(body.top_k, Num(DefaultTopK))
        fields == Default(body.fields, Arr(<<>>))
        filters == Default(body.filters, Obj(NoKeys))
        rerank == Default(body.rerank, Null)
        search_type == Default(body.search_type, Str(Text))
        pineconeIndexHost == EnvGet("PINECONE_INDEX_HOST")
        pineconeApiKey == EnvGet("PINECONE_API_KEY")
        encoded == EncodeURIComponent(namespace)
        built == BuildQuery(search_type, query, top_k)
    IN  IF ~Truthy(pineconeIndexHost) \/ ~Truthy(pineconeApiKey)
        THEN Reply(500,
                   [error |-> "Pinecone configuration missing",
                    details |-> [hasIndexHost |-> Truthy(pineconeIndexHost),
                                 hasApiKey |-> Truthy(pineconeApiKey)]])
        ELSE IF ~Truthy(query)
        THEN Reply(400, [error |-> "Query parameter is required"])
        ELSE IF ~encoded.ok
        THEN Throw(PlainError("URI malformed"))
        ELSE IF built.kind = "reply"
        THEN built
        ELSE Call(PineconeApiUrl(pineconeIndexHost, JsToString(namespace)),
                  Obj(AddRerank([query |-> built.query]
                                @@ AddFilter(AddFields([top_k |-> ClampTopK(top_k)], fields),
                                             filters),
                                rerank, search_type, top_k, fields)),
                  pineconeApiKey,
                  QueryTimeoutMs)

\* the handler from its entry to the await of axios.post, or to an earlier end
PineconeQuery000(body) ==
    LET query == body.query
        namespace == Default(body.namespace, Str(DefaultNamespace))
        top_k == Default(body.top_k, Num(DefaultTopK))
        fields == Default(body.fields, Arr(<<>>))
        filters == Default(body.filters, Obj(NoKeys))
        rerank == Default(body.rerank, Null)
        search_type == Default(body.search_type, Str(Text))
        pineconeIndexHost == EnvGet("PINECONE_INDEX_HOST")
        pineconeApiKey == EnvGet("PINECONE_API_KEY")
        encoded == EncodeURIComponent(namespace)
        built == BuildQuery(search_type, query, top_k)
    IN  IF ~Truthy(pineconeIndexHost) \/ ~Truthy(pineconeApiKey)
        THEN Reply(500,
                   [error |-> "Pinecone configuration missing",
                    details |-> [hasIndexHost |-> Truthy(pineconeIndexHost),
                                 hasApiKey |-> Truthy(pineconeApiKey)]])
        ELSE IF ~Truthy(query)
        THEN Reply(400, [error |-> "Query parameter is required"])
        ELSE IF ~encoded.ok
        THEN Throw(PlainError("URI malformed"))
        ELSE IF built.kind = "reply"
        THEN built
        ELSE Call(PineconeApiUrl(pineconeIndexHost, encoded.s),
                  Obj(AddRerank([query |-> built.query]
                                @@ AddFilter(AddFields([top_k |-> ClampTopK(top_k)], fields),
                                             filters),
                                rerank, search_type, top_k, fields)),
                  pineconeApiKey,
                  QueryTimeoutMs)

\* the success path after the await
EnhancedResults000(searchResults, body) ==
    IF searchResults.t \in {"undefined", "null"}
    THEN Throw(PlainError("Cannot read properties of null (reading 'result')"))
    ELSE Reply(200,
               [metadata |->
                   [search_type |-> Default(body.search_type, Str(Text)),
                    namespace |-> Default(body.namespace, Str(DefaultNamespace)),
                    top_k |-> Default(body.top_k, Num(DefaultTopK)),
                    total_results |-> TotalResults(searchResults),
                    has_reranking |-> Truthy(Default(body.rerank, Null))]]
               @@ Spread(searchResults))

\* the catch block
MapError000(error) ==
    IF Truthy(error.response)
    THEN Reply(Prop(error.response, "status").n,
               [error |-> "Pinecone API error",
                details |-> Prop(error.response, "data"),
                status |-> Prop(error.response, "status"),
                statusText |-> Prop(error.response, "statusText")])
    ELSE IF StrictEq(error.code, ENOTFOUND) \/ StrictEq(error.code, ECONNREFUSED)
    THEN Reply(503,
               [error |-> "Unable to connect to Pinecone API",
                details |-> Lit("Please check your PINECONE_INDEX_HOST configuration"),
                code |-> error.code])
    ELSE Reply(500,
               [error |-> "Internal server error during Pinecone query",
                message |-> error.message])

(***************************************************************************)
(* Environment debug revision (part_003)                                   *)
(***************************************************************************)
possibleApiKeyNames ==
    <<"PINECONE_API_KEY", "PINECONE_KEY", "PINECONEAPI_KEY", "PINECONE_ACCESS_KEY">>

possibleHostNames ==
    <<"PINECONE_INDEX_HOST", "PINECONE_HOST", "PINECONE_INDEX_URL", "PINECONE_API_URL",
      "PINECONE_ENDPOINT">>

\* the `for (const name of names) if (process.env[name]) { ...; break; }` loops:
\* the name the loop stops at, "none" when it runs to the end
RECURSIVE FoundIn(_)
FoundIn(names) ==
    IF Len(names) = 0 THEN "none"
    ELSE IF Truthy(EnvGet(Head(names))) THEN Head(names)
    ELSE FoundIn(Tail(names))

\* pineconeApiKey after the first loop (null when no name is set)
ApiKey003 ==
    LET keyName == FoundIn(possibleApiKeyNames)
    IN  IF keyName = "none" THEN Null ELSE EnvGet(keyName)

\* pineconeIndexHost after the second loop, "https://" removed inside the loop
IndexHost003 ==
    LET hostName == FoundIn(possibleHostNames)
    IN  IF hostName = "none" THEN Null
        ELSE IF StartsWith(EnvGet(hostName).s, HttpsPrefix)
        THEN Str(ReplaceFirst(EnvGet(hostName).s, HttpsPrefix, <<>>))
        ELSE EnvGet(hostName)

\* the names the 'Found API key in' and 'Found index host in' log lines give
EnvironmentCheck003 ==
    [apiKeyFound |-> Truthy(ApiKey003),
     apiKeySource |-> FoundIn(possibleApiKeyNames),
     hostFound |-> Truthy(IndexHost003),
     hostValue |-> IndexHost003,
     hostSource |-> FoundIn(possibleHostNames)]

\* the handler from its entry to the await of axios.post, or to an earlier end
PineconeQuery003(body) ==
    LET pineconeApiKey == ApiKey003
        pineconeIndexHost == IndexHost003
        query == body.query
        search_type == Default(body.search_type, Str(Text))
        namespace == Default(body.namespace, Str(DefaultNamespace))
        top_k == Default(body.top_k, Num(DefaultTopK))
        encoded == EncodeURIComponent(namespace)
    IN  IF ~Truthy(pineconeApiKey) \/ ~Truthy(pineconeIndexHost)
        THEN Reply(500,
                   [error |-> "Pinecone configuration missing",
                    details |-> [apiKey |-> [found |-> Truthy(pineconeApiKey),
                                             checkedNames |-> possibleApiKeyNames],
                                 indexHost |-> [found |-> Truthy(pineconeIndexHost),
                                                value |-> pineconeIndexHost,
                                                checkedNames |-> possibleHostNames],
                                 availablePineconeVars |-> DOMAIN env]])
        ELSE IF ~Truthy(query)
        THEN Reply(400, [error |-> "Query parameter is required"])
        ELSE IF ~encoded.ok
        THEN Throw(PlainError("URI malformed"))
        ELSE IF StrictEq(search_type, Str(Text))
        THEN Call(PineconeApiUrl(pineconeIndexHost, encoded.s),
                  Obj([top_k |-> ClampTopK(top_k),
                       query |-> Obj([inputs |-> Obj([text |-> query]),
                                      top_k |-> ClampTopK(top_k)])]),
                  pineconeApiKey,
                  QueryTimeoutMs)
        ELSE Reply(400, [error |-> "Only text search supported in this debug version"])

\* the success path after the await: the provider body as it is
Results003(data) == Reply(200, data)

\* the catch block: error.response?.data || error.message, always with 500
MapError003(error) ==
    Reply(500,
          [error |-> "Pinecone request failed",
           details |-> Or(IF error.response.t \in {"undefined", "null"} THEN Undef
                          ELSE Prop(error.response, "data"),
                          error.message)])

(***************************************************************************)
(* The three revisions behind one route                                    *)
(***************************************************************************)
Revisions == {"part_002", "part_000", "part_003"}

HandlerOf(r, body) ==
    CASE r = "part_002" -> PineconeQuery(body)
      [] r = "part_000" -> PineconeQuery000(body)
      [] r = "part_003" -> PineconeQuery003(body)

SuccessOf(r, data, body, url) ==
    CASE r = "part_002" -> EnhancedResults(data, body, Str(url))
      [] r = "part_000" -> EnhancedResults000(data, body)
      [] r = "part_003" -> Results003(data)

MapErrorOf(r, error) ==
    CASE r = "part_002" -> MapError(error)
      [] r = "part_000" -> MapError000(error)
      [] r = "part_003" -> MapError003(error)

EnvLogOf(r) ==
    CASE r = "part_002" -> <<EnvironmentCheck(PineconeApiKey, PineconeIndexHost)>>
      [] r = "part_000" -> <<>>
      [] r = "part_003" -> <<EnvironmentCheck003>>

(***************************************************************************)
(* Inputs: environments, request bodies, provider outcomes                 *)
(***************************************************************************)
KeyA == <<"k", "A">>

KeyB == <<"k", "B">>

KeyC == <<"k", "C">>

KeyD == <<"k", "D">>

HostA == <<"e", "x", ".", "i", "o">>

HostB == <<"b", ".", "i", "o">>

HostC == HttpsPrefix \o <<"c", ".", "i", "o">>

HostE == <<"e", ".", "i", "o">>

\* the values each variable takes when it is set
KeyF == <<"k", "F">>

KeyO == <<"k", "O">>

HostF == <<"f", ".", "i", "o">>

EnvValues ==
    [PINECONE_API_KEY |-> {<<>>, KeyA},
     PINECONE_KEY |-> {KeyB},
     API_KEY |-> {KeyC},
     PINECONE_ACCESS_KEY |-> {KeyD},
     PINECONE_INDEX_HOST |-> {<<>>, HostA, HttpsPrefix \o HostA,
                              HttpsPrefix \o HttpsPrefix \o HostA, HttpsPrefix},
     PINECONE_HOST |-> {HostB},
     INDEX_HOST |-> {HostC},
     PINECONE_ENDPOINT |-> {HostE},
     MAKE_CHAT_WEBHOOK_URL |-> {<<>>, <<"https://hook.make.example/chat">>},
     ALLOWED_EMAIL_DOMAIN |-> {<<>>, <<"@", "f", ".", "c", "o">>},
     FLINT_OS_PINECONE_API_KEY |-> {<<>>, KeyF},
     FLINT_OS_PINECONE_INDEX_HOST |-> {<<>>, HostF, HttpsPrefix \o HostF, HttpsPrefix},
     OPENAI_API_KEY |-> {KeyO},
     NOTION_API_TOKEN |-> {<<"secret_n">>},
     NOTION_DATABASE_ID |-> {<<"db1">>}]

KeyNames == {"PINECONE_API_KEY", "PINECONE_KEY", "API_KEY", "PINECONE_ACCESS_KEY"}

HostNames == {"PINECONE_INDEX_HOST", "PINECONE_HOST", "INDEX_HOST", "PINECONE_ENDPOINT"}

\* every setting of some of the names, each to one of its values
Settings(names) ==
    UNION {{f \in [S -> UNION {EnvValues[n] : n \in S}] : \A n \in S : f[n] \in EnvValues[n]} :
           S \in SUBSET names}

GoodKeys == [n \in {"PINECONE_API_KEY"} |-> KeyA]

GoodHosts == [n \in {"PINECONE_INDEX_HOST"} |-> HostA]

\* no variable that any revision accepts holds a usable value
Unusable(f) == \A n \in DOMAIN f : f[n] \in {<<>>, HttpsPrefix}

\* the environments: every setting of the key names beside a good host, every
\* setting of the host names beside a good key, and the settings with neither
Envs ==
    {k @@ h : k \in {GoodKeys}, h \in Settings(HostNames)}
    \cup {k @@ h : k \in Settings(KeyNames), h \in {GoodHosts}}
    \cup {k @@ h : k \in {f \in Settings(KeyNames) : Unusable(f)},
                   h \in {f \in Settings(HostNames) : Unusable(f)}}

MainEnv == GoodKeys @@ GoodHosts

FindDocs == <<"f", "i", "n", "d", " ", "d", "o", "c", "s">>

Body(query, search_type, top_k, namespace, fields, filters, rerank) ==
    [query |-> query, search_type |-> search_type, top_k |-> top_k, namespace |-> namespace,
     fields |-> fields, filters |-> filters, rerank |-> rerank]

Queries ==
    {Undef, Null, Str(<<>>), Str(FindDocs), Num(42), Arr(<<>>), Arr(<<Num(1), Num(2)>>),
     Arr(<<Num(1), Str(<<"x">>)>>), Obj(NoKeys)}

SearchTypes ==
    {Undef, Null, Str(Text), Str(Vector), Str(Id), Str(<<"h", "y", "b", "r", "i", "d">>)}

TopKs ==
    {Undef, Null, Num(0 - 1), Num(5), Num(TopKMax), Num(TopKMax + 1),
     Str(<<"2", "0", "0", "0", "0">>), Str(<<"a", "b", "c">>)}

Namespaces ==
    {Undef, Str(<<"a", " ", "b">>), Str(<<"d", "/", "1">>), Str(<<"n", LoneSurrogate>>)}

FieldLists == {Undef, Arr(<<>>), Arr(<<Str(<<"t", "i", "t", "l", "e">>)>>)}

FilterObjects == {Undef, Obj(NoKeys), Obj([category |-> Obj([eq |-> Lit("ai")])])}

Reranks ==
    {Undef, Obj([model |-> Lit("bge-reranker-v2-m3")]),
     Obj([model |-> Lit("bge-reranker-v2-m3"), query |-> Lit("other")])}

\* every query, search type and top_k, the rest absent
BodiesByQuery ==
    {Body(q, st, k, Undef, Undef, Undef, Undef) : q \in Queries, st \in SearchTypes, k \in TopKs}

\* every namespace, field list, filter and rerank, on a text and a vector query
BodiesByOptions ==
    {Body(qs[1], qs[2], Undef, ns, f, fl, rr) :
        qs \in {<<Str(FindDocs), Str(Text)>>, <<Arr(<<Num(1), Num(2)>>), Str(Vector)>>},
        ns \in Namespaces, f \in FieldLists, fl \in FilterObjects, rr \in Reranks}

\* the request of the documented scenario: a text query with top_k 5 and one field
ScenarioBody ==
    Body(Str(FindDocs), Str(Text), Num(5), Undef, Arr(<<Str(<<"t", "i", "t", "l", "e">>)>>),
         Undef, Undef)

\* the rerank objects of a request: none, without a model, and with a model
\* beside each of top_n, rank_fields and query, given or empty
RerankRequests ==
    {Null, Obj(NoKeys), Obj([model |-> Str(<<>>)]), Obj([top_n |-> Num(3)])}
    \cup {Obj([model |-> Lit("bge-reranker-v2-m3")] @@ more) :
             more \in {NoKeys, [top_n |-> Num(3)], [top_n |-> Num(0)],
                       [rank_fields |-> Arr(<<Lit("chunk_text")>>)],
                       [query |-> Lit("other")], [query |-> Str(<<>>)],
                       [top_n |-> Num(3), rank_fields |-> Arr(<<Lit("chunk_text")>>),
                        query |-> Lit("other")]}}

\* every rerank object on a text, a vector and an id query, with top_k below
\* and above the cap of top_n, with and without fields
BodiesByRerank ==
    {Body(qs[1], qs[2], k, Undef, f, Undef, rr) :
        qs \in {<<Str(FindDocs), Undef>>, <<Arr(<<Num(1), Num(2)>>), Str(Vector)>>,
                <<Str(<<"r", "1">>), Str(Id)>>},
        k \in {Undef, Num(5), Num(RerankTopNMax + 50)},
        f \in {Undef, Arr(<<Str(<<"t", "i", "t", "l", "e">>)>>)},
        rr \in RerankRequests}

Bodies == BodiesByQuery \cup BodiesByOptions \cup {ScenarioBody} \cup BodiesByRerank

\* the bodies tried in every environment
CoreBodies ==
    {Body(q, st, Undef, ns, Undef, Undef, Undef) :
        q \in {Undef, Str(FindDocs), Arr(<<Num(1), Num(2)>>)},
        st \in {Undef, Str(Vector)},
        ns \in {Undef, Str(<<"n", LoneSurrogate>>)}}

BodiesIn(e) == IF e = MainEnv THEN Bodies ELSE CoreBodies

MaxHits == 2

Hit == Obj([_id |-> Lit("rec1")])

\* the bodies of a 2xx provider response
ProviderBodies ==
    {Null, Str(<<>>), Obj(NoKeys), Obj([result |-> Obj(NoKeys)]),
     Obj([result |-> Obj([hits |-> Arr(<<Hit>>)]), metadata |-> Obj([region |-> Lit("us")])])}
    \cup {Obj([result |-> Obj([hits |-> Arr([i \in 1..n |-> Hit])]), usage |-> Obj(NoKeys)]) :
             n \in 0..MaxHits}

ProviderErrorStatuses == {400, 404, 422, 429, 500, 503}

ProviderErrorBodies == {Obj([message |-> Lit("bad filter")]), Lit("upstream failure")}

\* the codes of axios errors: with a response, and without one
HttpErrorCodes == {Lit("ERR_BAD_REQUEST"), ECONNABORTED}

NetworkErrorCodes ==
    {ENOTFOUND, ECONNREFUSED, ECONNABORTED, Lit("ECONNRESET"), Lit("ETIMEDOUT")}

\* the ways axios.post fails: with a response of the provider, or without one
AxiosFailures ==
    {[response |-> Obj([status |-> Num(st), data |-> d, statusText |-> Lit("error")]),
      code |-> c,
      message |-> Lit("Request failed")] :
        st \in ProviderErrorStatuses, d \in ProviderErrorBodies, c \in HttpErrorCodes}
    \cup {[response |-> Undef, code |-> c, message |-> Lit("network failure")] :
             c \in NetworkErrorCodes}

\* the error axios rejects with: the failure and the config of the call
AxiosError(failure, call) == failure @@ [config |-> Obj([url |-> Str(call.url)])]

(***************************************************************************)
(* The state machine of one server process                                 *)
(***************************************************************************)
\* a response as the client receives it
Sent(reply) == [status |-> reply.status, body |-> reply.body]

\* a plausible slip: the call sent a second time
IssueTwice(call) == <<call, call>>

\* the provider calls one request's axios.post issues
Issue(call) == <<call>>

NoBody == Body(Undef, Undef, Undef, Undef, Undef, Undef, Undef)

Init ==
    /\ env \in Envs
    /\ rev \in Revisions
    /\ pc = "idle"
    /\ req = NoBody
    /\ outbound = <<>>
    /\ replies = <<>>
    /\ envLog = <<>>
    /\ caught = <<>>
    /\ inflight = <<>>
    /\ locals = <<>>
    /\ alive = TRUE

\* a request arrives and the handler runs to its await or to its response
Handle(body) ==
    /\ pc = "idle"
    /\ req' = body
    /\ envLog' = EnvLogOf(rev)
    /\ LET out == HandlerOf(rev, body)
       IN  CASE out.kind = "call" ->
                  /\ pc' = "awaiting"
                  /\ outbound' = Issue(out)
                  /\ replies' = <<>>
                  /\ caught' = <<>>
             [] out.kind = "throw" ->
                  /\ pc' = "done"
                  /\ outbound' = <<>>
                  /\ replies' = <<Sent(MapErrorOf(rev, out.error))>>
                  /\ caught' = <<out.error>>
             [] OTHER ->
                  /\ pc' = "done"
                  /\ outbound' = <<>>
                  /\ replies' = <<Sent(out)>>
                  /\ caught' = <<>>
    /\ UNCHANGED <<env, rev, inflight, locals, alive>>

\* axios.post resolves with a 2xx response
ProviderResolve(data) ==
    /\ pc = "awaiting"
    /\ LET out == SuccessOf(rev, data, req, outbound[1].url)
       IN  IF out.kind = "throw"
           THEN /\ replies' = Append(replies, Sent(MapErrorOf(rev, out.error)))
                /\ caught' = <<out.error>>
           ELSE /\ replies' = Append(replies, Sent(out))
                /\ caught' = <<>>
    /\ pc' = "done"
    /\ outbound' = Settled(outbound, ResolvedWith(data))
    /\ UNCHANGED <<env, rev, req, envLog, inflight, locals, alive>>

\* axios.post rejects
ProviderReject(failure) ==
    /\ pc = "awaiting"
    /\ replies' = Append(replies, Sent(MapErrorOf(rev, AxiosError(failure, outbound[1]))))
    /\ caught' = <<AxiosError(failure, outbound[1])>>
    /\ pc' = "done"
    /\ outbound' = Settled(outbound, RejectedWith(failure))
    /\ UNCHANGED <<env, rev, req, envLog, inflight, locals, alive>>

\* the request is over: nothing of it stays in the process
Close ==
    /\ pc = "done"
    /\ pc' = "idle"
    /\ req' = NoBody
    /\ outbound' = <<>>
    /\ replies' = <<>>
    /\ envLog' = <<>>
    /\ caught' = <<>>
    /\ UNCHANGED <<env, rev, inflight, locals, alive>>

Next ==
    \/ \E body \in BodiesIn(env) : Handle(body)
    \/ Close
    \/ \E data \in ProviderBodies : ProviderResolve(data)
    \/ \E failure \in AxiosFailures : ProviderReject(failure)

Spec == Init /\ [][Next]_vars

\* every provider call ends: axios resolves, rejects or times out after timeout ms
FairSpec ==
    Spec /\ WF_vars(\E data \in ProviderBodies : ProviderResolve(data))
         /\ WF_vars(\E failure \in AxiosFailures : ProviderReject(failure))

(***************************************************************************)
(* Several requests to POST /pinecone-query in flight at once.  Node runs  *)
(* a handler without interruption from its entry to its `await` and from   *)
(* the settling of the awaited promise to the response, so requests        *)
(* interleave at the await only.  `inflight` holds the invocations that    *)
(* have not been answered and closed, in the order they arrived.           *)
(***************************************************************************)
MaxInFlight == 2

\* one invocation of the handler, run to its await or to its response: the
\* request it was called with, what it has sent, and the pineconeApiUrl it holds
Invocation(body) ==
    LET out == HandlerOf(rev, body)
    IN  [req |-> body,
         pc |-> IF out.kind = "call" THEN "awaiting" ELSE "done",
         url |-> IF out.kind = "call" THEN out.url ELSE <<>>,
         outbound |-> IF out.kind = "call" THEN Issue(out) ELSE <<>>,
         replies |-> CASE out.kind = "call" -> <<>>
                       [] out.kind = "throw" -> <<Sent(MapErrorOf(rev, out.error))>>
                       [] OTHER -> <<Sent(out)>>,
         answer |-> <<>>]

\* a plausible slip: the handler's variables declared outside the handler, so
\* that the code after the await finds those of the invocation that ran last
ClosureInModuleScope(flights, i) == flights[Len(flights)]

\* the variables the code after the await reads: the `const`s of its own invocation
Closure(flights, i) == flights[i]

\* the bodies, provider responses and failures tried with requests side by side
SideBySideBodies ==
    {Body(Str(FindDocs), Undef, Num(5), Undef, Undef, Undef, Undef),
     Body(Arr(<<Num(1), Num(2)>>), Str(Vector), Undef, Str(<<"a", " ", "b">>), Undef, Undef,
          Obj([model |-> Lit("bge-reranker-v2-m3")])),
     NoBody}

SideBySideData ==
    {Null,
     Obj([result |-> Obj([hits |-> Arr([i \in 1..MaxHits |-> Hit])]), usage |-> Obj(NoKeys)])}

SideBySideFailures ==
    {[response |-> Obj([status |-> Num(422), data |-> Lit("upstream failure"),
                        statusText |-> Lit("error")]),
      code |-> Lit("ERR_BAD_REQUEST"),
      message |-> Lit("Request failed")],
     [response |-> Undef, code |-> ENOTFOUND, message |-> Lit("network failure")]}

SideBySideEnvs == {MainEnv, [PINECONE_API_KEY |-> KeyA]}

SideBySideInit ==
    /\ env \in SideBySideEnvs
    /\ rev = "part_002"
    /\ pc = "idle"
    /\ req = NoBody
    /\ outbound = <<>>
    /\ replies = <<>>
    /\ envLog = <<>>
    /\ caught = <<>>
    /\ inflight = <<>>
    /\ locals = <<>>
    /\ alive = TRUE

\* a request arrives while others wait for the provider
Arrive(body) ==
    /\ Len(inflight) < MaxInFlight
    /\ inflight' = Append(inflight, Invocation(body))
    /\ UNCHANGED <<env, rev, pc, req, outbound, replies, envLog, caught, locals, alive>>

\* the axios.post of invocation i resolves: its code after the await runs
Resolved(i, data) ==
    /\ inflight[i].pc = "awaiting"
    /\ LET own == Closure(inflight, i)
           out == SuccessOf(rev, data, own.req, own.url)
       IN  inflight' =
               [inflight EXCEPT
                   ![i].pc = "done",
                   ![i].replies = <<Sent(IF out.kind = "throw"
                                         THEN MapErrorOf(rev, out.error)
                                         ELSE out)>>,
                   ![i].answer = <<[kind |-> "resolved", with |-> data]>>]
    /\ UNCHANGED <<env, rev, pc, req, outbound, replies, envLog, caught, locals, alive>>

\* the axios.post of invocation i rejects: its catch block runs
Rejected(i, failure) ==
    /\ inflight[i].pc = "awaiting"
    /\ inflight' =
           [inflight EXCEPT
               ![i].pc = "done",
               ![i].replies =
                   <<Sent(MapErrorOf(rev, AxiosError(failure, inflight[i].outbound[1])))>>,
               ![i].answer = <<[kind |-> "rejected", with |-> failure]>>]
    /\ UNCHANGED <<env, rev, pc, req, outbound, replies, envLog, caught, locals, alive>>

\* the response of invocation i has gone out: the invocation is over
Finished(i) ==
    /\ inflight[i].pc = "done"
    /\ inflight' = SubSeq(inflight, 1, i - 1) \o SubSeq(inflight, i + 1, Len(inflight))
    /\ UNCHANGED <<env, rev, pc, req, outbound, replies, envLog, caught, locals, alive>>

SideBySideNext ==
    \/ \E body \in SideBySideBodies : Arrive(body)
    \/ \E i \in 1..Len(inflight) : \E data \in SideBySideData : Resolved(i, data)
    \/ \E i \in 1..Len(inflight) : \E failure \in SideBySideFailures : Rejected(i, failure)
    \/ \E i \in 1..Len(inflight) : Finished(i)

SideBySideSpec == SideBySideInit /\ [][SideBySideNext]_vars

(***************************************************************************)
(* The other routes of the server, one request at a time.  A handler runs  *)
(* in segments: from its entry to its first `await`, and from the settling *)
(* of an awaited call to the next `await` or to the response.  A segment   *)
(* ends in a response (Reply), in a call to await (Await), or in the       *)
(* rejection of the async handler's promise (Rejects).                     *)
(***************************************************************************)
(***************************************************************************)
(* GET /test-namespaces (part_002)                                         *)
(***************************************************************************)
namespaces ==
    <<DefaultNamespace,
      <<"k", "e", "y", "_", "l", "e", "a", "r", "n", "i", "n", "g", "s">>,
      <<"c", "h", "a", "l", "l", "e", "n", "g", "e", "s">>,
      <<"i", "n", "i", "t", "i", "a", "t", "i", "v", "e", "s">>>>

TestTimeoutMs == 10000

\* the call of one turn of the loop
TestCall(namespace) ==
    Call(PineconeApiUrl(EnvGet("PINECONE_INDEX_HOST"), EncodeURIComponent(Str(namespace)).s),
         Obj([query |-> Obj([inputs |-> Obj([text |-> Lit("test")]), top_k |-> Num(1)])]),
         EnvGet("PINECONE_API_KEY"),
         TestTimeoutMs)

\* a plausible slip: every turn recorded as a success
TestResultSuccess(call, settled) ==
    [status |-> "success",
     result_count |-> Num(0),
     url |-> Str(call.url)]

\* testResults[namespace] of one turn: the try block's entry, or the catch block's
TestResult(call, settled) ==
    IF settled.kind = "resolved"
    THEN [status |-> "success",
          result_count |-> IF settled.data.t \in {"undefined", "null"} THEN Num(0)
                           ELSE TotalResults(settled.data),
          url |-> Str(call.url)]
    ELSE [status |-> "error",
          error |-> settled.failure.message,
          response_status |-> Prop(settled.failure.response, "status"),
          response_data |-> Prop(settled.failure.response, "data"),
          url |-> Str(call.url)]

\* the handler up to the first turn's await
TestNamespacesEnter ==
    IF ~Truthy(EnvGet("PINECONE_API_KEY")) \/ ~Truthy(EnvGet("PINECONE_INDEX_HOST"))
    THEN Reply(500, [error |-> "Pinecone not configured"])
    ELSE Await(TestCall(namespaces[1]), [testResults |-> <<>>])

\* the rest of a turn after its call has settled, and on to the next turn or
\* to the response after the loop
TestNamespacesResume(calls, held, settled) ==
    LET testResults == Append(held.testResults, TestResult(calls[Len(calls)], settled))
    IN  IF Len(testResults) < Len(namespaces)
        THEN Await(TestCall(namespaces[Len(testResults) + 1]), [testResults |-> testResults])
        ELSE Reply(200,
                   [namespace_tests |->
                       [n \in {namespaces[i] : i \in 1..Len(namespaces)} |->
                           testResults[CHOOSE i \in 1..Len(namespaces) : namespaces[i] = n]]])

(***************************************************************************)
(* validateEmailDomain and POST /api/chat (part_002)                       *)
(***************************************************************************)
\* s.endsWith(p)
EndsWith(s, p) == Len(s) >= Len(p) /\ SubSeq(s, Len(s) - Len(p) + 1, Len(s)) = p

YourCompany ==
    <<"@", "y", "o", "u", "r", "c", "o", "m", "p", "a", "n", "y", ".", "c", "o", "m">>

\* the middleware: the 401, or "next" when the route's handler is to run
validateEmailDomain(request) ==
    LET email == request.email
        allowedDomain == Or(EnvGet("ALLOWED_EMAIL_DOMAIN"), Str(YourCompany))
    IN  IF ~Truthy(email) \/ ~EndsWith(email.s, allowedDomain.s)
        THEN Reply(401,
                   [error |-> "Unauthorized domain",
                    message |-> allowedDomain,
                    received_email |-> email])
        ELSE [kind |-> "next", userEmail |-> email]

\* JSON.stringify(v): a text that stands for v and is not v
JsonStringify(v) == Str(<<[json |-> v]>>)

ChatTimeoutMs == 30000

\* the handler up to its await: the log line before `try` reads
\* req.body.message?.substring(0, 100), a TypeError for a message that is
\* neither nullish nor a string
ChatEnter(request) ==
    LET message == Prop(request.body, "message")
        conversation_history == Prop(request.body, "conversation_history")
        makeWebhookUrl == EnvGet("MAKE_CHAT_WEBHOOK_URL")
    IN  IF message.t \notin {"undefined", "null", "string"}
        THEN Rejects(PlainError("req.body.message?.substring is not a function"))
        ELSE IF ~Truthy(message)
        THEN Reply(400,
                   [error |-> "Message parameter is required",
                    message |-> Lit("Please provide a message to send")])
        ELSE IF ~Truthy(makeWebhookUrl)
        THEN Reply(500,
                   [error |-> "Chat webhook not configured",
                    message |-> Lit("Please set MAKE_CHAT_WEBHOOK_URL environment variable")])
        ELSE Await(Call(makeWebhookUrl.s,
                        Obj([message |-> message,
                             conversation_history |-> Or(conversation_history, Arr(<<>>)),
                             source |-> Lit("flint_os_dashboard"),
                             user_email |-> request.userEmail]),
                        Undef,
                        ChatTimeoutMs),
                   <<>>)

\* "Handle different response formats from Make.com", for a data that is not null
ChatResponse(data) ==
    IF TypeOf(data) = "string" THEN data
    ELSE IF Truthy(Prop(data, "response")) THEN Prop(data, "response")
    ELSE IF Truthy(Prop(data, "message")) THEN Prop(data, "message")
    ELSE IF Truthy(Prop(data, "reply")) THEN Prop(data, "reply")
    ELSE JsonStringify(data)

\* the handler after its await: the response, or the catch block's
ChatResume(settled) ==
    IF settled.kind = "resolved"
    THEN (IF settled.data.t \in {"undefined", "null"}
          THEN Reply(500,
                     [error |-> "Chat service unavailable",
                      message |-> Lit("Please try again later")])
          ELSE Reply(200, [response |-> ChatResponse(settled.data)]))
    ELSE IF StrictEq(settled.failure.code, ECONNABORTED)
    THEN Reply(504,
               [error |-> "Chat service timeout",
                message |-> Lit("Please try again with a shorter message")])
    ELSE Reply(500,
               [error |-> "Chat service unavailable",
                message |-> Lit("Please try again later")])

\* the global error handler
ErrorHandler(error) == Reply(500, [error |-> "Internal Server Error"])

\* what becomes of a rejected handler promise, by the Express and Node in use:
\* Express 5 passes the error to the error handler; Express 4 drops the
\* promise, and Node then either ends the process (unhandled rejections
\* throw, the default from Node 15) or warns and lets the request hang
UnhandledRejections == {"error handler", "process exit", "warning"}

(***************************************************************************)
(* GET /health (part_002 and index.js)                                     *)
(***************************************************************************)
Ellipsis == <<".", ".", ".">>

\* s.substring(0, n)
SubstringTo(s, n) == SubSeq(s, 1, IF n < Len(s) THEN n ELSE Len(s))

\* a plausible slip: a server without credentials reports itself unavailable
HealthUnlessConfigured(r) ==
    IF Truthy(EnvGet("PINECONE_API_KEY")) /\ Truthy(EnvGet("PINECONE_INDEX_HOST"))
    THEN Reply(200, [status |-> "OK"])
    ELSE Reply(503, [status |-> "UNAVAILABLE"])

\* the handler of a revision: res.json(healthData)
Health(r) ==
    LET apiKey002(v) ==
            [isSet |-> Truthy(v),
             length |-> IF Truthy(v) THEN LengthOf(v) ELSE Num(0),
             preview |-> IF Truthy(v) THEN Str(SubstringTo(v.s, 8) \o Ellipsis) ELSE Null]
        indexHost002(v) == [isSet |-> Truthy(v), value |-> Or(v, Null)]
        \* v?.length || 0, and v?.substring(0, 7) + '...' || 'not set'
        apiKeyJs(v) ==
            [isSet |-> Truthy(v),
             length |-> Or(OptionalLength(v), Num(0)),
             preview |-> Or(Str((IF v.t = "undefined" THEN JsToString(Undef)
                                 ELSE SubstringTo(v.s, 7)) \o Ellipsis),
                            Lit("not set"))]
        indexHostJs(v) == [isSet |-> Truthy(v), value |-> Or(v, Lit("not set"))]
    IN  IF r = "part_002"
        THEN Reply(200,
                   [status |-> "OK",
                    pineconeConfig |->
                        [transcripts |->
                            [apiKey |-> apiKey002(EnvGet("PINECONE_API_KEY")),
                             indexHost |-> indexHost002(EnvGet("PINECONE_INDEX_HOST"))],
                         flintOs |->
                            [apiKey |-> apiKey002(EnvGet("FLINT_OS_PINECONE_API_KEY")),
                             indexHost |-> indexHost002(EnvGet("FLINT_OS_PINECONE_INDEX_HOST")),
                             usingFallback |->
                                 (~Truthy(EnvGet("FLINT_OS_PINECONE_API_KEY"))
                                  \/ ~Truthy(EnvGet("FLINT_OS_PINECONE_INDEX_HOST")))]],
                    configuration |->
                        [chat_webhook_configured |-> Truthy(EnvGet("MAKE_CHAT_WEBHOOK_URL")),
                         allowed_email_domain |->
                             Or(EnvGet("ALLOWED_EMAIL_DOMAIN"), Lit("not configured"))],
                    allEnvKeys |-> DOMAIN env])
        ELSE Reply(200,
                   [status |-> "OK",
                    pineconeConfig |->
                        [transcripts |->
                            [apiKey |-> apiKeyJs(EnvGet("PINECONE_API_KEY")),
                             indexHost |-> indexHostJs(EnvGet("PINECONE_INDEX_HOST"))],
                         flintOs |->
                            [apiKey |-> apiKeyJs(EnvGet("FLINT_OS_PINECONE_API_KEY")),
                             indexHost |-> indexHostJs(EnvGet("FLINT_OS_PINECONE_INDEX_HOST")),
                             usingFallback |->
                                 (~Truthy(EnvGet("FLINT_OS_PINECONE_API_KEY"))
                                  /\ Truthy(EnvGet("PINECONE_API_KEY")))]],
                    configuration |->
                        [chat_webhook_configured |-> Truthy(EnvGet("MAKE_CHAT_WEBHOOK_URL")),
                         openai_configured |-> Truthy(EnvGet("OPENAI_API_KEY")),
                         allowed_email_domain |->
                             Or(EnvGet("ALLOWED_EMAIL_DOMAIN"),
                                Lit("@flintbuilders.com"))]])

(***************************************************************************)
(* The FLINT OS endpoints: GET /api/recent and POST /api/search (part_002) *)
(***************************************************************************)
\* a plausible slip: the FLINT OS key alone, without the fallback to the main ones
FlintApiKeyAlone == EnvGet("FLINT_OS_PINECONE_API_KEY")

\* FLINT_OS_PINECONE_API_KEY || PINECONE_API_KEY || PINECONE_KEY || API_KEY
FlintApiKey ==
    Or(Or(Or(EnvGet("FLINT_OS_PINECONE_API_KEY"), EnvGet("PINECONE_API_KEY")),
          EnvGet("PINECONE_KEY")),
       EnvGet("API_KEY"))

\* FLINT_OS_PINECONE_INDEX_HOST || PINECONE_INDEX_HOST || PINECONE_HOST ||
\* INDEX_HOST, then without a leading "https://"
FlintIndexHost ==
    CleanHost(Or(Or(Or(EnvGet("FLINT_OS_PINECONE_INDEX_HOST"), EnvGet("PINECONE_INDEX_HOST")),
                    EnvGet("PINECONE_HOST")),
                 EnvGet("INDEX_HOST")))

FlintConfigurationMissing ==
    Reply(500,
          [error |-> "Pinecone configuration missing",
           details |-> Lit("Please set FLINT_OS_PINECONE_API_KEY and FLINT_OS_PINECONE_INDEX_HOST (or fallback variables)")])

\* the fields both endpoints ask the provider for
FlintFields ==
    Arr(<<Lit("title"), Lit("chunk_text"), Lit("date_ended"), Lit("people_involved"),
          Lit("tags"), Lit("source_type"), Lit("discussion"), Lit("action_items"),
          Lit("decisions_made"), Lit("label")>>)

FlintTimeoutMs == 30000

\* `https://${pineconeIndexHost}/records/namespaces/__default__/search`
FlintApiUrl(pineconeIndexHost) == PineconeApiUrl(pineconeIndexHost, DefaultNamespace)

\* the longest prefix of s made of decimal digits
RECURSIVE DigitPrefix(_)
DigitPrefix(s) ==
    IF s = <<>> \/ ~IsDigit(Head(s)) THEN <<>> ELSE <<Head(s)>> \o DigitPrefix(Tail(s))

\* parseInt(v), for a number that is an integer or a string without sign or blanks
ParseInt(v) ==
    CASE v.t = "number" -> v
      [] v.t = "string" ->
            IF DigitPrefix(v.s) = <<>> THEN NaN ELSE Num(DecimalValue(DigitPrefix(v.s)))
      [] OTHER -> NaN

\* new Date(Date.now() - days * 24 * 60 * 60 * 1000): an invalid date when the
\* product is NaN, whose toISOString() throws RangeError
ValidDate(days) == ToNumber(days).t = "number"

\* cutoffDate.toISOString().split('T')[0]: the day that lies `days` days back,
\* a text that stands for it
DateFilter(days) == Str(<<[daysBack |-> ToNumber(days).n]>>)

InvalidTimeValue == PlainError("Invalid time value")

\* error.stack, a text that stands for it
StackOf(error) == Str(<<[stack |-> error.message]>>)

\* the catch block of either endpoint
FlintCatch(title, error) ==
    Reply(500,
          [error |-> title,
           message |-> error.message,
           details |-> IF StrictEq(EnvGet("NODE_ENV"), Lit("development"))
                       THEN StackOf(error)
                       ELSE Undef])

FailedToFetchRecent == "Failed to fetch recent knowledge"

SearchFailed == "Search failed"

\* GET /api/recent past the middleware, up to its await; request.body is req.query
RecentEnter(request) ==
    LET limit == Default(Prop(request.body, "limit"), Num(20))
        days == Default(Prop(request.body, "days"), Num(30))
    IN  IF ~ValidDate(days) THEN FlintCatch(FailedToFetchRecent, InvalidTimeValue)
        ELSE IF ~Truthy(FlintApiKey) \/ ~Truthy(FlintIndexHost) THEN FlintConfigurationMissing
        ELSE Await(Call(FlintApiUrl(FlintIndexHost),
                        Obj([query |->
                                Obj([inputs |->
                                        Obj([text |-> Lit("recent updates knowledge information project meeting")]),
                                     top_k |-> ParseInt(limit)]),
                             fields |-> FlintFields,
                             filter |-> Obj([date_ended |-> Obj([gte |-> DateFilter(days)])])]),
                        FlintApiKey,
                        FlintTimeoutMs),
                   <<>>)

\* (response.data.result?.hits || []).map(...): no entry for no hit, TypeError
\* for a hit without `record`; the provider bodies tried hold no other hit
FlintEntries(title, name, data) ==
    LET result == Prop(data, "result")
        hits == Or(IF result.t \in {"undefined", "null"} THEN Undef ELSE Prop(result, "hits"),
                   Arr(<<>>))
    IN  CASE data.t \in {"undefined", "null"} ->
                  FlintCatch(title, PlainError("Cannot read properties of null (reading 'result')"))
          [] data.t \notin {"undefined", "null"} /\ hits.a = <<>> ->
                  Reply(200, [n \in {name} |-> Arr(<<>>)])
          [] data.t \notin {"undefined", "null"} /\ hits.a # <<>>
                  /\ Prop(hits.a[1], "record").t \in {"undefined", "null"} ->
                  FlintCatch(title, PlainError("Cannot read properties of undefined (reading 'id')"))

\* either endpoint after its await
FlintResume(title, name, settled) ==
    IF settled.kind = "resolved"
    THEN FlintEntries(title, name, settled.data)
    ELSE FlintCatch(title, settled.failure)

\* pineconeFilter: $in for the three lists that are non-empty arrays, and a
\* range for a date_range that has both ends
SearchFilter(filters) ==
    LET lists == {k \in {"source_type", "tags", "people_involved"} :
                      /\ Truthy(Prop(filters, k))
                      /\ IsArray(Prop(filters, k))
                      /\ GreaterThanZero(LengthOf(Prop(filters, k)))}
        ranged == /\ Truthy(Prop(filters, "date_range"))
                  /\ Truthy(Prop(Prop(filters, "date_range"), "from"))
                  /\ Truthy(Prop(Prop(filters, "date_range"), "to"))
    IN  [k \in lists |-> Obj([in |-> Prop(filters, k)])]
        @@ (IF ranged
            THEN [date_ended |-> Obj([gte |-> Prop(Prop(filters, "date_range"), "from"),
                                      lte |-> Prop(Prop(filters, "date_range"), "to")])]
            ELSE NoKeys)

\* POST /api/search past the middleware, up to its await
SearchEnter(request) ==
    LET query == Prop(request.body, "query")
        filters == Default(Prop(request.body, "filters"), Obj(NoKeys))
    IN  IF ~Truthy(query)
        THEN Reply(400,
                   [error |-> "Query parameter is required",
                    message |-> Lit("Please provide a search query")])
        ELSE IF ~Truthy(FlintApiKey) \/ ~Truthy(FlintIndexHost) THEN FlintConfigurationMissing
        ELSE IF filters.t = "null"
        THEN FlintCatch(SearchFailed,
                        PlainError("Cannot read properties of null (reading 'source_type')"))
        ELSE Await(Call(FlintApiUrl(FlintIndexHost),
                        Obj([query |-> Obj([inputs |-> Obj([text |-> query]), top_k |-> Num(50)]),
                             fields |-> FlintFields,
                             filter |-> IF DOMAIN SearchFilter(filters) # {}
                                        THEN Obj(SearchFilter(filters))
                                        ELSE Undef]),
                        FlintApiKey,
                        FlintTimeoutMs),
                   <<>>)

(***************************************************************************)
(* The same endpoints in index.js, which embed the query first             *)
(***************************************************************************)
FlintBuilders ==
    <<"@", "f", "l", "i", "n", "t", "b", "u", "i", "l", "d", "e", "r", "s", ".", "c", "o", "m">>

\* the middleware of index.js
validateEmailDomainIndex(request) ==
    LET email == request.email
        allowedDomain == Or(EnvGet("ALLOWED_EMAIL_DOMAIN"), Str(FlintBuilders))
    IN  IF ~Truthy(email) \/ ~EndsWith(email.s, allowedDomain.s)
        THEN Reply(401, [error |-> "Unauthorized domain", message |-> allowedDomain])
        ELSE [kind |-> "next", userEmail |-> email]

EmbeddingsUrl == <<"https://api.openai.com/v1/embeddings">>

EmbeddingInputMax == 8000

EmbeddingTimeoutMs == 30000

\* the call of generateEmbedding(text), for a text that is a string
EmbeddingCall(text) ==
    Call(EmbeddingsUrl,
         Obj([model |-> Lit("text-embedding-3-small"),
              input |-> Str(SubstringTo(text.s, EmbeddingInputMax))]),
         Str(<<"Bearer ">> \o EnvGet("OPENAI_API_KEY").s),
         EmbeddingTimeoutMs)

\* what generateEmbedding throws, whatever went wrong inside it
EmbeddingFailed == PlainError("Failed to generate embedding for search")

\* generateEmbedding(text) makes its call: the key is set and text.substring exists
CanEmbed(text) == Truthy(EnvGet("OPENAI_API_KEY")) /\ TypeOf(text) = "string"

\* response.data.data[0].embedding can be read
HasEmbedding(settled) ==
    /\ settled.kind = "resolved"
    /\ Prop(settled.data, "data").t = "array"
    /\ Prop(settled.data, "data").a # <<>>
    /\ Prop(settled.data, "data").a[1].t \notin {"undefined", "null"}

EmbeddingOf(settled) == Prop(Prop(settled.data, "data").a[1], "embedding")

FlintQueryPath == <<"/", "q", "u", "e", "r", "y">>

\* `https://${flintOsHost}/query`
FlintQueryUrl(flintOsHost) == HttpsPrefix \o JsToString(flintOsHost) \o FlintQueryPath

FlintNotFound == PlainError("FLINT OS Pinecone configuration not found")

\* the catch block of either endpoint: the provider's 422 is passed on with
\* its body, every other error is a 500 that carries the message alone
FlintCatchIndex(title422, message422, title, error) ==
    IF StrictEq(Prop(error.response, "status"), Num(422))
    THEN Reply(422,
               [error |-> title422,
                message |-> Lit(message422),
                details |-> Prop(error.response, "data")])
    ELSE Reply(500, [error |-> title, message |-> error.message])

RecentCatchIndex(error) ==
    FlintCatchIndex("Invalid request format", "Pinecone API request validation failed",
                    FailedToFetchRecent, error)

SearchCatchIndex(error) ==
    FlintCatchIndex("Invalid search request", "Pinecone API validation failed",
                    SearchFailed, error)

\* response.data.matches || [] and its map: no entry for no match; the
\* provider bodies tried hold no match
FlintMatches(name, data) ==
    CASE data.t \notin {"undefined", "null"}
            /\ Or(Prop(data, "matches"), Arr(<<>>)).a = <<>> ->
                Reply(200, [n \in {name} |-> Arr(<<>>)])

NullData == PlainError("Cannot read properties of null (reading 'matches')")

\* GET /api/recent of index.js past the middleware, up to its first await
RecentEnterIndex(request) ==
    LET text == Lit("recent updates knowledge information documents meeting notes")
    IN  IF ~CanEmbed(text) THEN RecentCatchIndex(EmbeddingFailed)
        ELSE Await(EmbeddingCall(text), <<>>)

\* ... and after an await: of the embedding when one call is out, of Pinecone
\* when two are
RecentResumeIndex(request, calls, settled) ==
    LET limit == Default(Prop(request.body, "limit"), Num(20))
        days == Default(Prop(request.body, "days"), Num(30))
        flintOsKey == EnvGet("FLINT_OS_PINECONE_API_KEY")
        flintOsHost == EnvGet("FLINT_OS_PINECONE_INDEX_HOST")
    IN  IF Len(calls) = 1
        THEN (IF ~HasEmbedding(settled) THEN RecentCatchIndex(EmbeddingFailed)
              ELSE IF ~ValidDate(days) THEN RecentCatchIndex(InvalidTimeValue)
              ELSE IF ~Truthy(flintOsKey) \/ ~Truthy(flintOsHost)
              THEN RecentCatchIndex(FlintNotFound)
              ELSE Await(Call(FlintQueryUrl(flintOsHost),
                              Obj([vector |-> EmbeddingOf(settled),
                                   topK |-> ParseInt(limit),
                                   namespace |-> Str(DefaultNamespace),
                                   includeMetadata |-> Bool(TRUE),
                                   filter |-> Obj([date_ended |->
                                                      Obj([gte |-> DateFilter(days)])])]),
                              flintOsKey,
                              FlintTimeoutMs),
                         <<>>))
        ELSE IF settled.kind = "rejected" THEN RecentCatchIndex(settled.failure)
        ELSE IF settled.data.t \in {"undefined", "null"} THEN RecentCatchIndex(NullData)
        ELSE FlintMatches("entries", settled.data)

\* pineconeFilter of index.js: $in for the three lists that have a length,
\* and a range for any date_range
SearchFilterIndex(filters) ==
    LET lists == {k \in {"source_type", "tags", "people_involved"} :
                      Truthy(OptionalLength(Prop(filters, k)))}
    IN  [k \in lists |-> Obj([in |-> Prop(filters, k)])]
        @@ (IF Truthy(Prop(filters, "date_range"))
            THEN [date_ended |-> Obj([gte |-> Prop(Prop(filters, "date_range"), "from"),
                                      lte |-> Prop(Prop(filters, "date_range"), "to")])]
            ELSE NoKeys)

\* POST /api/search of index.js past the middleware, up to its first await
SearchEnterIndex(request) ==
    LET query == Prop(request.body, "query")
    IN  IF ~Truthy(query) THEN Reply(400, [error |-> "Query parameter is required"])
        ELSE IF ~CanEmbed(query) THEN SearchCatchIndex(EmbeddingFailed)
        ELSE Await(EmbeddingCall(query), <<>>)

\* ... and after an await
SearchResumeIndex(request, calls, settled) ==
    LET filters == Default(Prop(request.body, "filters"), Obj(NoKeys))
        flintOsKey == EnvGet("FLINT_OS_PINECONE_API_KEY")
        flintOsHost == EnvGet("FLINT_OS_PINECONE_INDEX_HOST")
    IN  IF Len(calls) = 1
        THEN (IF ~HasEmbedding(settled) THEN SearchCatchIndex(EmbeddingFailed)
              ELSE IF filters.t = "null"
              THEN SearchCatchIndex(PlainError("Cannot read properties of null (reading 'source_type')"))
              ELSE IF ~Truthy(flintOsKey) \/ ~Truthy(flintOsHost)
              THEN SearchCatchIndex(FlintNotFound)
              ELSE Await(Call(FlintQueryUrl(flintOsHost),
                              Obj([vector |-> EmbeddingOf(settled),
                                   topK |-> Num(50),
                                   namespace |-> Str(DefaultNamespace),
                                   includeMetadata |-> Bool(TRUE),
                                   filter |-> IF DOMAIN SearchFilterIndex(filters) # {}
                                              THEN Obj(SearchFilterIndex(filters))
                                              ELSE Undef]),
                              flintOsKey,
                              FlintTimeoutMs),
                         <<>>))
        ELSE IF settled.kind = "rejected" THEN SearchCatchIndex(settled.failure)
        ELSE IF settled.data.t \in {"undefined", "null"} THEN SearchCatchIndex(NullData)
        ELSE FlintMatches("results", settled.data)

(***************************************************************************)
(* POST /api/chat of index.js, and its Notion endpoints                    *)
(***************************************************************************)
\* the chat handler of index.js up to its await: it logs req.body whole
ChatEnterIndex(request) ==
    LET message == Prop(request.body, "message")
        conversation_history == Prop(request.body, "conversation_history")
        makeWebhookUrl == EnvGet("MAKE_CHAT_WEBHOOK_URL")
    IN  IF ~Truthy(message)
        THEN Reply(400, [error |-> "Message parameter is required"])
        ELSE IF ~Truthy(makeWebhookUrl)
        THEN Reply(500,
                   [error |-> "Chat webhook not configured",
                    message |-> Lit("Please set MAKE_CHAT_WEBHOOK_URL environment variable")])
        ELSE Await(Call(makeWebhookUrl.s,
                        Obj([message |-> message,
                             conversation_history |-> Or(conversation_history, Arr(<<>>)),
                             source |-> Lit("flint_os_dashboard"),
                             user_email |-> request.userEmail]),
                        Undef,
                        ChatTimeoutMs),
                   <<>>)

NotionTimeoutMs == 30000

\* axios.post(`https://api.notion.com/v1/databases/${databaseId}/query`, ...)
NotionCall(notionToken, databaseId, notionPayload) ==
    Call(<<"https://api.notion.com/v1/databases/">> \o JsToString(databaseId) \o <<"/query">>,
         Obj(notionPayload),
         Str(<<"Bearer ">> \o JsToString(notionToken)),
         NotionTimeoutMs)

Descending(property) == Obj([property |-> Lit(property), direction |-> Lit("descending")])

\* GET /api/recent-notion past the middleware, up to its await; the token and
\* the database id are literals of the source, never empty
RecentNotionEnter(request) ==
    LET limit == Default(Prop(request.body, "limit"), Num(20))
    IN  Await(NotionCall(Lit("ntn_v76360814545OsVy0XnVxzXFBJ82Lye9J8R9q8q1rel85F"),
                         Lit("22d1c725-5b2e-80d1-a2c3-f7b6586e26a4"),
                         [sorts |-> Arr(<<Descending("Date Received")>>),
                          page_size |-> ParseInt(limit)]),
              <<>>)

\* transformNotionToKnowledgeEntries: no entry without a results array or
\* for an empty one; the Notion bodies tried hold no page
NotionEntries(notionResponse) ==
    CASE ~Truthy(Prop(notionResponse, "results")) \/ ~IsArray(Prop(notionResponse, "results")) ->
              Arr(<<>>)
      [] IsArray(Prop(notionResponse, "results")) /\ Prop(notionResponse, "results").a = <<>> ->
              Arr(<<>>)

NotionNullData == PlainError("Cannot read properties of null (reading 'results')")

\* ... and after it
RecentNotionResume(settled) ==
    LET error == IF settled.kind = "rejected" THEN settled.failure ELSE NotionNullData
    IN  IF settled.kind = "resolved" /\ settled.data.t \notin {"undefined", "null"}
        THEN Reply(200, [entries |-> NotionEntries(settled.data)])
        ELSE Reply(500,
                   [error |-> "Failed to fetch recent Notion knowledge",
                    message |-> error.message,
                    status |-> Prop(error.response, "status")])

\* one condition of the Notion filter
Condition(property, kind, test) == Obj([property |-> Lit(property)] @@ [k \in {kind} |-> Obj(test)])

\* filterConditions: the text search, then one condition for each filter given
FilterConditions(query, filters) ==
    (IF Truthy(query)
     THEN <<Obj([or |-> Arr(<<Condition("Title", "title", [contains |-> query]),
                              Condition("What Was Discussed", "rich_text", [contains |-> query]),
                              Condition("Decision Made", "rich_text", [contains |-> query])>>)])>>
     ELSE <<>>)
    \o (IF Truthy(OptionalLength(Prop(filters, "source_type")))
        THEN <<Condition("Source Type", "select", [equals |-> Prop(filters, "source_type").a[1]])>>
        ELSE <<>>)
    \o (IF Truthy(OptionalLength(Prop(filters, "tags")))
        THEN <<Condition("Tags", "multi_select", [contains |-> Prop(filters, "tags").a[1]])>>
        ELSE <<>>)
    \o (IF Truthy(Prop(filters, "date_range"))
        THEN <<Condition("Date Received", "date",
                         [on_or_after |-> Prop(Prop(filters, "date_range"), "from"),
                          on_or_before |-> Prop(Prop(filters, "date_range"), "to")])>>
        ELSE <<>>)
    \o (IF Truthy(OptionalLength(Prop(filters, "importance")))
        THEN <<Condition("Importance", "select", [equals |-> Prop(filters, "importance").a[1]])>>
        ELSE <<>>)

\* notionFilter: undefined, the one condition, or the conditions under `and`;
\* the filter lists tried are arrays
NotionFilter(query, filters) ==
    LET filterConditions == FilterConditions(query, filters)
    IN  IF Len(filterConditions) = 0 THEN Undef
        ELSE IF Len(filterConditions) = 1 THEN filterConditions[1]
        ELSE Obj([and |-> Arr(filterConditions)])

NotionSearchFailed(error) ==
    Reply(500, [error |-> "Notion search failed", message |-> error.message])

\* POST /api/search-notion past the middleware, up to its await
SearchNotionEnter(request) ==
    LET query == Prop(request.body, "query")
        filters == Default(Prop(request.body, "filters"), Obj(NoKeys))
        notionToken == EnvGet("NOTION_API_TOKEN")
        databaseId == EnvGet("NOTION_DATABASE_ID")
    IN  IF ~Truthy(notionToken) \/ ~Truthy(databaseId)
        THEN Reply(500, [error |-> "Notion configuration missing"])
        ELSE IF filters.t = "null"
        THEN NotionSearchFailed(PlainError("Cannot convert undefined or null to object"))
        ELSE Await(NotionCall(notionToken, databaseId,
                              [sorts |-> Arr(<<Descending("Freshness Score"),
                                               Descending("Date Received")>>),
                               page_size |-> Num(50)]
                              @@ (IF Truthy(NotionFilter(query, filters))
                                  THEN [filter |-> NotionFilter(query, filters)]
                                  ELSE NoKeys)),
                   <<>>)

\* ... and after it
SearchNotionResume(settled) ==
    IF settled.kind = "rejected" THEN NotionSearchFailed(settled.failure)
    ELSE IF settled.data.t \in {"undefined", "null"} THEN NotionSearchFailed(NotionNullData)
    ELSE Reply(200, [results |-> NotionEntries(settled.data)])

(***************************************************************************)
(* The routes of the server, and its state machine                         *)
(***************************************************************************)
Request(route, email, body) == [route |-> route, email |-> email, body |-> body]

\* a handler behind the middleware: the 401, or the handler's outcome for the
\* request with req.userEmail set
\* the handler a guarded route is registered with
Handler(request) ==
    CASE request.route = "POST /api/chat" /\ rev = "part_002" -> ChatEnter(request)
      [] request.route = "GET /api/recent" /\ rev = "part_002" -> RecentEnter(request)
      [] request.route = "POST /api/search" /\ rev = "part_002" -> SearchEnter(request)
      [] request.route = "POST /api/chat" /\ rev = "index.js" -> ChatEnterIndex(request)
      [] request.route = "GET /api/recent" /\ rev = "index.js" -> RecentEnterIndex(request)
      [] request.route = "POST /api/search" /\ rev = "index.js" -> SearchEnterIndex(request)
      [] request.route = "GET /api/recent-notion" /\ rev = "index.js" ->
            RecentNotionEnter(request)
      [] request.route = "POST /api/search-notion" /\ rev = "index.js" ->
            SearchNotionEnter(request)

\* a plausible slip: the route registered without the middleware
GuardedNot(checked, request) == Handler(request @@ [userEmail |-> request.email])

\* app.get(path, validateEmailDomain, handler): the handler runs when the
\* middleware has called next(), with the req.userEmail it has set
Guarded(checked, request) ==
    IF checked.kind = "reply" THEN checked
    ELSE Handler(request @@ [userEmail |-> checked.userEmail])

\* a request runs from the router to the first await of its handler
Enter(request) ==
    CASE request.route = "GET /health" -> Health(rev)
      [] request.route = "GET /test-namespaces" -> TestNamespacesEnter
      [] request.route \notin {"GET /health", "GET /test-namespaces"} /\ rev = "part_002" ->
            Guarded(validateEmailDomain(request), request)
      [] request.route \notin {"GET /health", "GET /test-namespaces"} /\ rev = "index.js" ->
            Guarded(validateEmailDomainIndex(request), request)

\* an awaited call has settled
Resume(request, calls, held, settled) ==
    CASE request.route = "GET /test-namespaces" -> TestNamespacesResume(calls, held, settled)
      [] request.route = "POST /api/chat" -> ChatResume(settled)
      [] request.route = "GET /api/recent" /\ rev = "part_002" ->
            FlintResume(FailedToFetchRecent, "entries", settled)
      [] request.route = "POST /api/search" /\ rev = "part_002" ->
            FlintResume(SearchFailed, "results", settled)
      [] request.route = "GET /api/recent" /\ rev = "index.js" ->
            RecentResumeIndex(request, calls, settled)
      [] request.route = "POST /api/search" /\ rev = "index.js" ->
            SearchResumeIndex(request, calls, settled)
      [] request.route = "GET /api/recent-notion" -> RecentNotionResume(settled)
      [] request.route = "POST /api/search-notion" -> SearchNotionResume(settled)

ServerRevisions == {"part_002", "index.js"}

\* the environments of the chat route, beside the main credentials
ChatEnvs ==
    {MainEnv @@ f : f \in Settings({"MAKE_CHAT_WEBHOOK_URL", "ALLOWED_EMAIL_DOMAIN"})}

\* the settings of at most one of the names
AtMostOne(names) == {f \in Settings(names) : Cardinality(DOMAIN f) <= 1}

\* the environments of the FLINT OS endpoints: every FLINT OS key beside every
\* single fallback key, with a good host; the same for the hosts, with a good
\* key; and the FLINT OS variables alone, set or not; each with and without
\* the key of the embedding service
FlintEnvs ==
    {c @@ o :
        c \in {k @@ m @@ GoodHosts : k \in Settings({"FLINT_OS_PINECONE_API_KEY"}),
                                     m \in AtMostOne(KeyNames)}
              \cup {h @@ m @@ GoodKeys : h \in Settings({"FLINT_OS_PINECONE_INDEX_HOST"}),
                                         m \in AtMostOne(HostNames)}
              \cup {k @@ h : k \in {NoKeys, [FLINT_OS_PINECONE_API_KEY |-> KeyF]},
                             h \in {NoKeys, [FLINT_OS_PINECONE_INDEX_HOST |-> HostF]}},
        o \in Settings({"OPENAI_API_KEY"})}

\* the environments of the Notion search, beside the main credentials
NotionEnvs == {MainEnv @@ f : f \in Settings({"NOTION_API_TOKEN", "NOTION_DATABASE_ID"})}

ServerEnvs == Envs \cup ChatEnvs \cup FlintEnvs \cup NotionEnvs

Emails ==
    {Undef, Str(<<"u">> \o YourCompany), Str(<<"u", "@", "f", ".", "c", "o">>),
     Str(YourCompany \o <<".", "e", "v", "i", "l">>)}

\* the x-user-email headers tried on the guarded routes
GuardedEmails == Emails \cup {Str(<<>>), Str(<<"u">> \o FlintBuilders)}

ChatMessages ==
    {Undef, Null, Str(<<>>), Str(<<"h", "i">>), Num(42), Bool(TRUE), Arr(<<Lit("hi")>>),
     Obj([text |-> Lit("hi")])}

ChatRequests ==
    {Request("POST /api/chat", e, Obj([message |-> m])) : e \in GuardedEmails, m \in ChatMessages}
    \cup {Request("POST /api/chat", e, Obj(NoKeys)) : e \in GuardedEmails}
    \cup {Request("POST /api/chat", Str(<<"u">> \o YourCompany),
                  Obj([message |-> Lit("hello"), conversation_history |-> Arr(<<Lit("earlier")>>)]))}

FlintEmails == {Undef, Str(<<"u">> \o YourCompany), Str(<<"u">> \o FlintBuilders)}

\* the requests of the Notion endpoints: req.query of the one, req.body of the other
NotionRequests ==
    {Request("GET /api/recent-notion", e, q) :
        e \in GuardedEmails, q \in {Obj(NoKeys), Obj([limit |-> Str(<<"5">>)])}}
    \cup {Request("POST /api/search-notion", e, b) :
             e \in GuardedEmails,
             b \in {Obj(NoKeys), Obj([query |-> Lit("roof")]),
                    Obj([query |-> Lit("roof"),
                         filters |-> Obj([tags |-> Arr(<<Lit("ai")>>),
                                          importance |-> Arr(<<Lit("high")>>)])]),
                    Obj([filters |-> Obj([source_type |-> Arr(<<Lit("Meeting")>>)])]),
                    Obj([filters |-> Null])}}

\* req.query of GET /api/recent
RecentQueries ==
    {Obj(NoKeys), Obj([limit |-> Str(<<"5">>), days |-> Str(<<"7">>)]),
     Obj([days |-> Str(<<"s", "o", "o", "n">>)])}

\* req.body of POST /api/search
SearchBodies ==
    {Obj(NoKeys), Obj([query |-> Lit("roof")]), Obj([query |-> Num(42)]),
     Obj([query |-> Lit("roof"),
          filters |-> Obj([tags |-> Arr(<<Lit("ai")>>),
                           date_range |-> Obj([from |-> Lit("2025-01-01")])])]),
     Obj([query |-> Lit("roof"), filters |-> Null])}

FlintRequests ==
    {Request("GET /api/recent", e, q) : e \in FlintEmails, q \in RecentQueries}
    \cup {Request("POST /api/search", e, b) : e \in FlintEmails, b \in SearchBodies}

\* the requests tried in an environment, of the routes modelled for a revision
RequestsIn(e, r) ==
    {Request("GET /health", Undef, Undef)}
    \cup (IF r = "part_002" /\ e \in Envs \cup ChatEnvs
          THEN {Request("GET /test-namespaces", Undef, Undef)} ELSE {})
    \cup (IF e \in ChatEnvs THEN ChatRequests ELSE {})
    \cup (IF e \in FlintEnvs THEN FlintRequests ELSE {})
    \cup (IF e \in ChatEnvs
          THEN {Request(q.route, e2, q.body) : q \in FlintRequests, e2 \in GuardedEmails}
          ELSE {})
    \cup (IF r = "index.js" /\ e \in NotionEnvs \cup ChatEnvs THEN NotionRequests ELSE {})

\* what the calls of the FLINT OS endpoints, to the embedding service and to
\* Pinecone, settle to
FlintSettlings ==
    {ResolvedWith(d) :
        d \in {Null, Obj(NoKeys), Obj([result |-> Obj([hits |-> Arr(<<>>)])]),
               Obj([result |-> Obj([hits |-> Arr(<<Hit>>)])]), Obj([matches |-> Arr(<<>>)]),
               Obj([data |-> Arr(<<Obj([embedding |-> Arr(<<Num(1), Num(2)>>)])>>)])}}
    \cup {RejectedWith([response |-> Obj([status |-> Num(st), data |-> d,
                                          statusText |-> Lit("error")]),
                        code |-> Lit("ERR_BAD_REQUEST"),
                        message |-> Lit("Request failed")]) :
             st \in ProviderErrorStatuses, d \in ProviderErrorBodies}
    \cup {RejectedWith([response |-> Undef, code |-> c, message |-> Lit("network failure")]) :
             c \in {ENOTFOUND, ECONNABORTED}}

\* the bodies of the webhook's 2xx replies
ChatReplies ==
    {Null, Str(<<>>), Lit("hello"), Obj(NoKeys), Obj([response |-> Lit("r")]),
     Obj([response |-> Str(<<>>), message |-> Lit("m"), reply |-> Lit("y")]),
     Obj([reply |-> Lit("y")])}

\* what the calls of a route settle to
SettlingsOf(request) ==
    CASE request.route = "POST /api/chat" ->
              {ResolvedWith(d) : d \in ChatReplies}
              \cup {RejectedWith(f) : f \in SideBySideFailures}
              \cup {RejectedWith([response |-> Undef, code |-> ECONNABORTED,
                                  message |-> Lit("timeout of 30000ms exceeded")])}
      [] request.route \in {"GET /api/recent", "POST /api/search"} -> FlintSettlings
      [] request.route \in {"GET /api/recent-notion", "POST /api/search-notion"} ->
              {ResolvedWith(d) :
                  d \in {Null, Obj(NoKeys), Obj([results |-> Arr(<<>>)]),
                         Obj([results |-> Lit("none")])}}
              \cup {RejectedWith(f) : f \in SideBySideFailures}
      [] OTHER ->
              {ResolvedWith(d) : d \in SideBySideData}
              \cup {RejectedWith(f) : f \in SideBySideFailures}

NoRequest == Request("none", Undef, Undef)

ServerInit ==
    /\ env \in ServerEnvs
    /\ rev \in ServerRevisions
    /\ pc = "idle"
    /\ req = NoRequest
    /\ outbound = <<>>
    /\ replies = <<>>
    /\ envLog = <<>>
    /\ caught = <<>>
    /\ inflight = <<>>
    /\ locals = <<>>
    /\ alive = TRUE

\* what the end of a segment does to the request in hand, `calls` being the
\* calls made before it
Proceed(out, calls) ==
    CASE out.kind = "await" ->
              /\ pc' = "awaiting"
              /\ outbound' = Append(calls, out.call)
              /\ locals' = out.held
              /\ UNCHANGED <<replies, alive>>
      [] out.kind = "reply" ->
              /\ pc' = "done"
              /\ outbound' = calls
              /\ replies' = Append(replies, Sent(out))
              /\ UNCHANGED <<locals, alive>>
      [] out.kind = "rejects" ->
              /\ outbound' = calls
              /\ locals' = locals
              /\ \E way \in UnhandledRejections :
                    CASE way = "error handler" ->
                              /\ pc' = "done"
                              /\ replies' = Append(replies, Sent(ErrorHandler(out.error)))
                              /\ alive' = alive
                      [] way = "process exit" ->
                              /\ pc' = "unanswered"
                              /\ replies' = replies
                              /\ alive' = FALSE
                      [] way = "warning" ->
                              /\ pc' = "unanswered"
                              /\ replies' = replies
                              /\ alive' = alive

\* a request arrives and runs to its first await or to its response
Serve(request) ==
    /\ alive
    /\ pc = "idle"
    /\ req' = request
    /\ Proceed(Enter(request), <<>>)
    /\ UNCHANGED <<env, rev, envLog, caught, inflight>>

\* the awaited call settles and the handler runs on
Settle(settled) ==
    /\ alive
    /\ pc = "awaiting"
    /\ Proceed(Resume(req, outbound, locals, settled), Settled(outbound, settled))
    /\ UNCHANGED <<env, rev, req, envLog, caught, inflight>>

\* the response has gone out: nothing of the request stays in the process
ServerClose ==
    /\ alive
    /\ pc = "done"
    /\ pc' = "idle"
    /\ req' = NoRequest
    /\ outbound' = <<>>
    /\ replies' = <<>>
    /\ locals' = <<>>
    /\ UNCHANGED <<env, rev, envLog, caught, inflight, alive>>

\* the client of a request that is never answered gives up
Abandon ==
    /\ alive
    /\ pc = "unanswered"
    /\ pc' = "idle"
    /\ req' = NoRequest
    /\ outbound' = <<>>
    /\ replies' = <<>>
    /\ locals' = <<>>
    /\ UNCHANGED <<env, rev, envLog, caught, inflight, alive>>

ServerNext ==
    \/ \E request \in RequestsIn(env, rev) : Serve(request)
    \/ \E settled \in SettlingsOf(req) : Settle(settled)
    \/ ServerClose
    \/ Abandon

ServerSpec == ServerInit /\ [][ServerNext]_vars

(***************************************************************************)
(* What the claims speak of, stated apart from the handlers                *)
(***************************************************************************)
Called == Len(outbound) > 0

\* the candidate names of a revision, in priority order
KeyCandidates(r) ==
    CASE r = "part_002" -> <<"PINECONE_API_KEY", "PINECONE_KEY", "API_KEY">>
      [] r = "part_000" -> <<"PINECONE_API_KEY">>
      [] r = "part_003" -> possibleApiKeyNames

HostCandidates(r) ==
    CASE r = "part_002" -> <<"PINECONE_INDEX_HOST", "PINECONE_HOST", "INDEX_HOST">>
      [] r = "part_000" -> <<"PINECONE_INDEX_HOST">>
      [] r = "part_003" -> possibleHostNames

BoundNonEmpty(name) == name \in DOMAIN env /\ env[name] # <<>>

\* the first candidate bound to a non-empty value, "none" when there is none
FirstBound(names) ==
    IF \E i \in 1..Len(names) : BoundNonEmpty(names[i])
    THEN names[CHOOSE i \in 1..Len(names) :
                  /\ BoundNonEmpty(names[i])
                  /\ \A j \in 1..(i - 1) : ~BoundNonEmpty(names[j])]
    ELSE "none"

\* a host with one leading "https://" taken off
WithoutScheme(h) ==
    IF Len(h) >= Len(HttpsPrefix) /\ \A i \in 1..Len(HttpsPrefix) : h[i] = HttpsPrefix[i]
    THEN [i \in 1..(Len(h) - Len(HttpsPrefix)) |-> h[i + Len(HttpsPrefix)]]
    ELSE h

\* the host a revision is expected to use, <<>> when there is none
ExpectedHost(r) ==
    LET name == FirstBound(HostCandidates(r))
    IN  IF name = "none" THEN <<>>
        ELSE IF r = "part_000" THEN env[name]
        ELSE WithoutScheme(env[name])

\* the API key a revision is expected to use, <<>> when there is none
ExpectedKey(r) ==
    LET name == FirstBound(KeyCandidates(r))
    IN  IF name = "none" THEN <<>> ELSE env[name]

Configured(r) == ExpectedKey(r) # <<>> /\ ExpectedHost(r) # <<>>

\* the namespace of a body can be URL-encoded
Encodable(body) ==
    body.namespace.t # "string"
    \/ \A i \in 1..Len(body.namespace.s) : body.namespace.s[i] # LoneSurrogate

\* the search type of a body, the default applied
SearchTypeOf(body) == IF body.search_type = Undef THEN Str(Text) ELSE body.search_type

\* the top_k a payload is expected to carry, for an integer or absent top_k
ExpectedTopK(k) ==
    IF k = Undef THEN Num(DefaultTopK)
    ELSE IF k.n > TopKMax THEN Num(TopKMax)
    ELSE k

IntegerOrAbsent(k) == k.t \in {"undefined", "number"}

\* the query object of the payload sent
SentQuery == outbound[1].payload.o.query.o

\* C1: in the production revision, a text request (search_type "text" or
\* absent) that reaches the provider has a non-empty string query, and its
\* payload carries query.inputs = {text: query} and query.top_k =
\* min(top_k, 10000), 10 standing for an absent top_k; and every such request
\* with credentials configured and an encodable namespace does reach the provider.
C1_TextPayload ==
    /\ (rev = "part_002" /\ Called /\ SearchTypeOf(req) = Str(Text)) =>
          /\ TypeOf(req.query) = "string"
          /\ Len(req.query.s) > 0
          /\ DOMAIN SentQuery = {"inputs", "top_k"}
          /\ SentQuery.inputs = Obj([text |-> req.query])
          /\ IntegerOrAbsent(req.top_k) => SentQuery.top_k = ExpectedTopK(req.top_k)
    /\ (/\ rev = "part_002"
        /\ pc # "idle"
        /\ SearchTypeOf(req) = Str(Text)
        /\ TypeOf(req.query) = "string"
        /\ Len(req.query.s) > 0
        /\ Configured(rev)
        /\ Encodable(req)) => Called

C1_Witness ==
    /\ rev = "part_002"
    /\ Called
    /\ req.search_type = Undef
    /\ req.query = Str(FindDocs)
    /\ req.top_k = Num(TopKMax + 1)
    /\ SentQuery.inputs.o.text = Str(FindDocs)
    /\ SentQuery.top_k = Num(TopKMax)

\* the request fails validation, as the claim lists the cases
FailsValidation(body) ==
    LET st == SearchTypeOf(body)
    IN  \/ st \notin {Str(Text), Str(Vector), Str(Id)}
        \/ st \in {Str(Text), Str(Id)} /\ TypeOf(body.query) # "string"
        \/ /\ st = Str(Vector)
           /\ \/ ~IsArray(body.query)
              \/ \E i \in 1..Len(body.query.a) : TypeOf(body.query.a[i]) # "number"

UnknownSearchType(body) == SearchTypeOf(body) \notin {Str(Text), Str(Vector), Str(Id)}

Echoes(body) ==
    /\ "received" \in DOMAIN replies[1].body
    /\ replies[1].body.received = SearchTypeOf(body)

\* C2 as stated: every request that fails validation ends in a 400 with no
\* provider call, an unknown search_type echoed in the response.
C2_Original ==
    (rev = "part_002" /\ pc # "idle" /\ FailsValidation(req)) =>
        /\ ~Called
        /\ pc = "done"
        /\ replies[1].status = 400
        /\ UnknownSearchType(req) => Echoes(req)

\* C2, amended: in the production revision no request that fails validation
\* reaches the provider, and each is answered at once: with the configuration
\* 500 when credentials are missing; else with 400 'Query parameter is required'
\* when the query is falsy; else with 500 when the namespace cannot be
\* URL-encoded; else with the 400 of the type check, which echoes an unknown
\* search_type.
C2_ValidationRejects ==
    (rev = "part_002" /\ pc # "idle" /\ FailsValidation(req)) =>
        /\ ~Called
        /\ pc = "done"
        /\ Len(replies) = 1
        /\ IF ~Configured(rev)
           THEN replies[1].status = 500 /\ "details" \in DOMAIN replies[1].body
           ELSE IF ~Truthy(req.query)
           THEN replies[1].status = 400 /\ ~Echoes(req)
           ELSE IF ~Encodable(req)
           THEN replies[1].status = 500 /\ "message" \in DOMAIN replies[1].body
           ELSE /\ replies[1].status = 400
                /\ UnknownSearchType(req) <=> Echoes(req)

C2_Witness ==
    /\ rev = "part_002"
    /\ pc = "done"
    /\ Configured(rev)
    /\ SearchTypeOf(req) = Str(Vector)
    /\ req.query = Arr(<<Num(1), Str(<<"x">>)>>)
    /\ replies[1].status = 400
    /\ ~Called

\* C3: in the production revision, every payload sent carries in its query
\* object a top_k that is never above 10000 and that, for an integer or absent
\* top_k, is min(top_k, 10000) with 10 for an absent top_k (so exactly 10000
\* when the requested top_k exceeds 10000), whatever the search type.
C3_TopKClamped ==
    (rev = "part_002" /\ Called) =>
        /\ SentQuery.top_k.t \in {"number", "NaN"}
        /\ SentQuery.top_k.t = "number" => SentQuery.top_k.n <= TopKMax
        /\ IntegerOrAbsent(req.top_k) => SentQuery.top_k = ExpectedTopK(req.top_k)
        /\ (req.top_k.t = "number" /\ req.top_k.n > TopKMax) => SentQuery.top_k = Num(TopKMax)

C3_Witness ==
    /\ rev = "part_002"
    /\ Called
    /\ req.search_type = Str(Vector)
    /\ req.top_k = Num(TopKMax + 1)
    /\ SentQuery.top_k = Num(TopKMax)

\* the URL a call to host and the body's namespace is expected to start with
ExpectedUrlHead(r) == HttpsPrefix \o ExpectedHost(r) \o RecordsPath

UrlHead(r) == SubSeq(outbound[1].url, 1, Len(ExpectedUrlHead(r)))

\* C4 as stated, for the two revisions that try several names: the key and
\* the host are those of the first candidate bound to a non-empty value, and
\* the source logged for each is that candidate's name.
C4_Original ==
    (rev \in {"part_002", "part_003"} /\ pc # "idle") =>
        /\ envLog[1].apiKeySource = FirstBound(KeyCandidates(rev))
        /\ envLog[1].hostSource = FirstBound(HostCandidates(rev))
        /\ Called => /\ outbound[1].apiKey = Str(ExpectedKey(rev))
                     /\ UrlHead(rev) = ExpectedUrlHead(rev)

\* C5: in the two revisions that normalize the host, the host logged and used
\* in the URL is the value of the first bound candidate with one leading
\* "https://" taken off and nothing else changed: a second "https://" stays.
C5_HostNormalized ==
    (/\ rev \in {"part_002", "part_003"}
     /\ pc # "idle"
     /\ FirstBound(HostCandidates(rev)) # "none") =>
        /\ envLog[1].hostValue = Str(WithoutScheme(env[FirstBound(HostCandidates(rev))]))
        /\ Called => UrlHead(rev) = ExpectedUrlHead(rev)

C5_Witness ==
    /\ rev = "part_002"
    /\ Called
    /\ env[FirstBound(HostCandidates(rev))] = HttpsPrefix \o HttpsPrefix \o HostA
    /\ envLog[1].hostValue = Str(HttpsPrefix \o HostA)
    /\ UrlHead(rev) = HttpsPrefix \o HttpsPrefix \o HostA \o RecordsPath

\* C6: in the production revision and the earlier full revision, a request
\* handled while the API key or the host is missing is answered 500
\* 'configuration missing', whatever its body, with hasApiKey and hasIndexHost
\* telling which of the two values the handler holds, and without a provider call.
C6_ConfigurationMissing ==
    (rev \in {"part_002", "part_000"} /\ pc # "idle" /\ ~Configured(rev)) =>
        /\ pc = "done"
        /\ ~Called
        /\ Len(replies) = 1
        /\ replies[1].status = 500
        /\ replies[1].body.error = "Pinecone configuration missing"
        /\ replies[1].body.details.hasApiKey = (ExpectedKey(rev) # <<>>)
        /\ replies[1].body.details.hasIndexHost = (ExpectedHost(rev) # <<>>)

C6_Witness ==
    /\ rev = "part_002"
    /\ pc = "done"
    /\ FirstBound(KeyCandidates(rev)) = "none"
    /\ FirstBound(HostCandidates(rev)) = "PINECONE_INDEX_HOST"
    /\ req.query = Str(FindDocs)
    /\ replies[1].status = 500
    /\ ~replies[1].body.details.hasApiKey
    /\ replies[1].body.details.hasIndexHost

\* the error the catch block received is an HTTP response of the provider
ProviderHttpError == caught # <<>> /\ Truthy(caught[1].response)

\* C7: in the production revision and the earlier full revision, a provider
\* call that fails with an HTTP response of status S and body B is answered
\* with status S and B under `details`, for every S.
C7_ProviderErrorPropagated ==
    (rev \in {"part_002", "part_000"} /\ pc = "done" /\ ProviderHttpError) =>
        /\ Len(replies) = 1
        /\ replies[1].status = caught[1].response.o.status.n
        /\ replies[1].body.details = caught[1].response.o.data

C7_Witness ==
    /\ rev = "part_002"
    /\ pc = "done"
    /\ ProviderHttpError
    /\ caught[1].response.o.status = Num(422)
    /\ replies[1].status = 422
    /\ replies[1].body.details = Obj([message |-> Lit("bad filter")])

\* C8: in the production revision, a provider call that fails without an HTTP
\* response is answered 503 for ENOTFOUND and ECONNREFUSED and 504 for
\* ECONNABORTED; one that fails with an HTTP response is answered with the
\* provider's status whatever code it carries.
C8_ConnectivityMapped ==
    (rev = "part_002" /\ pc = "done" /\ caught # <<>>) =>
        /\ (~ProviderHttpError /\ caught[1].code \in {ENOTFOUND, ECONNREFUSED}) =>
              replies[1].status = 503
        /\ (~ProviderHttpError /\ caught[1].code = ECONNABORTED) => replies[1].status = 504
        /\ (ProviderHttpError /\ caught[1].code = ECONNABORTED) =>
              replies[1].status = caught[1].response.o.status.n

C8_Witness ==
    /\ rev = "part_002"
    /\ pc = "done"
    /\ caught # <<>>
    /\ ~ProviderHttpError
    /\ caught[1].code = ECONNABORTED
    /\ replies[1].status = 504

\* the statuses the claim names for an error
ExpectedErrorStatus(error) ==
    IF Truthy(error.response) THEN error.response.o.status.n
    ELSE IF error.code \in {ENOTFOUND, ECONNREFUSED} THEN 503
    ELSE IF error.code = ECONNABORTED THEN 504
    ELSE 500

\* C9: in the production revision, every error the catch block receives gets
\* exactly one response, whose status is the provider's status, 503, 504 or
\* 500 by the kind of the error; an error that is no provider HTTP error, no
\* connection failure and no timeout gets 500 with the error's message.
C9_ErrorMappingTotal ==
    (rev = "part_002" /\ caught # <<>>) =>
        /\ pc = "done"
        /\ Len(replies) = 1
        /\ replies[1].status = ExpectedErrorStatus(caught[1])
        /\ (~ProviderHttpError /\ ExpectedErrorStatus(caught[1]) = 500) =>
              /\ "message" \in DOMAIN replies[1].body
              /\ replies[1].body.message = caught[1].message

C9_Witness ==
    /\ rev = "part_002"
    /\ pc = "done"
    /\ Called
    /\ caught # <<>>
    /\ caught[1].code = Undef
    /\ replies[1].status = 500
    /\ replies[1].body.message = Lit("Cannot read properties of null (reading 'result')")

\* C10: in every revision, a request makes at most one provider call and gets
\* at most one response; it has exactly one response when the handler is
\* through, and none while the one call is pending; a failed call is not
\* issued again.
C10_OneCallOneResponse ==
    /\ Len(outbound) <= 1
    /\ Len(replies) <= 1
    /\ pc = "done" => Len(replies) = 1
    /\ pc = "awaiting" => Len(outbound) = 1 /\ Len(replies) = 0
    /\ pc = "idle" => Len(outbound) = 0 /\ Len(replies) = 0

C10_Witness ==
    /\ pc = "done"
    /\ Len(outbound) = 1
    /\ Len(replies) = 1
    /\ caught # <<>>
    /\ caught[1].code = ECONNABORTED

\* the response the single-request machine gives to a body, the provider
\* settling its call (if it makes one) as `answer` says
AloneResponse(body, answer) ==
    LET out == HandlerOf(rev, body)
    IN  CASE out.kind = "throw" -> Sent(MapErrorOf(rev, out.error))
          [] out.kind = "reply" -> Sent(out)
          [] OTHER ->
               IF answer[1].kind = "resolved"
               THEN LET after == SuccessOf(rev, answer[1].with, body, out.url)
                    IN  Sent(IF after.kind = "throw" THEN MapErrorOf(rev, after.error)
                             ELSE after)
               ELSE Sent(MapErrorOf(rev, AxiosError(answer[1].with, out)))

\* C11: requests to POST /pinecone-query in flight at the same time do not
\* interfere: each one has sent the provider call it sends when alone, and
\* each one that is answered has the one response it gets when processed
\* alone with the same provider outcome, whatever the others asked and got.
C11_NoInterference ==
    \A i \in 1..Len(inflight) :
        LET alone == HandlerOf(rev, inflight[i].req)
        IN  /\ inflight[i].outbound = (IF alone.kind = "call" THEN Issue(alone) ELSE <<>>)
            /\ inflight[i].pc = "awaiting" => inflight[i].replies = <<>>
            /\ inflight[i].pc = "done" =>
                  inflight[i].replies =
                      <<AloneResponse(inflight[i].req, inflight[i].answer)>>

C11_Witness ==
    /\ Len(inflight) = 2
    /\ inflight[1].pc = "done"
    /\ inflight[1].req.query = Str(FindDocs)
    /\ inflight[1].answer # <<>>
    /\ inflight[1].answer[1].kind = "resolved"
    /\ inflight[1].replies[1].status = 200
    /\ inflight[1].replies[1].body.metadata.top_k = Num(5)
    /\ inflight[2].pc = "awaiting"
    /\ inflight[2].req.search_type = Str(Vector)

\* the entry the response holds for the turn-th namespace
TestEntry(turn) == replies[1].body.namespace_tests[namespaces[turn]]

\* C12: GET /test-namespaces in the production revision, with
\* PINECONE_API_KEY and PINECONE_INDEX_HOST set, calls the provider once per
\* namespace of the fixed list, in list order, one call at a time (a call is
\* issued only when every earlier one has settled), goes on after a failed
\* call, and answers 200 with exactly one entry per namespace, marked success
\* or error as that namespace's own call ended.
C12_NamespacesInTurn ==
    (/\ req.route = "GET /test-namespaces"
     /\ Truthy(EnvGet("PINECONE_API_KEY"))
     /\ Truthy(EnvGet("PINECONE_INDEX_HOST"))) =>
        /\ Len(outbound) \in 1..Len(namespaces)
        /\ \A i \in 1..Len(outbound) :
              outbound[i].url =
                  HttpsPrefix \o env["PINECONE_INDEX_HOST"] \o RecordsPath \o namespaces[i]
                  \o SearchPath
        /\ \A i \in 1..(Len(outbound) - 1) : "settled" \in DOMAIN outbound[i]
        /\ pc = "awaiting" => /\ "settled" \notin DOMAIN outbound[Len(outbound)]
                              /\ replies = <<>>
        /\ pc = "done" =>
              /\ Len(outbound) = Len(namespaces)
              /\ Len(replies) = 1
              /\ replies[1].status = 200
              /\ DOMAIN replies[1].body.namespace_tests =
                     {namespaces[i] : i \in 1..Len(namespaces)}
              /\ \A i \in 1..Len(namespaces) :
                    /\ TestEntry(i).status =
                           (IF outbound[i].settled.kind = "resolved" THEN "success" ELSE "error")
                    /\ TestEntry(i).url = Str(outbound[i].url)

C12_Witness ==
    /\ req.route = "GET /test-namespaces"
    /\ pc = "done"
    /\ Len(outbound) = 4
    /\ outbound[1].settled.kind = "rejected"
    /\ outbound[2].settled.kind = "resolved"
    /\ TestEntry(1).status = "error"
    /\ TestEntry(2).status = "success"
    /\ TestEntry(3).status = "error"
    /\ TestEntry(4).status = "success"

\* the request in hand is a POST /api/chat of the production revision that
\* passed the email check
ChatPastEmailCheck ==
    /\ rev = "part_002"
    /\ req.route = "POST /api/chat"
    /\ validateEmailDomain(req).kind = "next"

\* C13 as stated: every POST /api/chat that passes the email check, whatever
\* its message, is answered (it is never left without a response, and has
\* exactly one when its handler is through), and the process lives on to
\* answer the next request.
C13_Original ==
    ChatPastEmailCheck =>
        /\ alive
        /\ pc \in {"awaiting", "done"}
        /\ pc = "done" => Len(replies) = 1

\* C13, where it holds: a POST /api/chat past the email check whose message
\* is absent, null or a string is answered exactly once and leaves the
\* process alive; one whose message is of another type is answered only if
\* the framework passes the rejected promise to the error handler.
C13_StringMessagesAnswered ==
    ChatPastEmailCheck =>
        /\ Prop(req.body, "message").t \in {"undefined", "null", "string"} =>
              /\ alive
              /\ pc \in {"awaiting", "done"}
              /\ pc = "done" => Len(replies) = 1
              /\ pc = "awaiting" => Len(replies) = 0
        /\ Prop(req.body, "message").t \notin {"undefined", "null", "string"} =>
              /\ outbound = <<>>
              /\ pc = "done" => replies = <<Sent(ErrorHandler(Undef))>>

C13_Witness ==
    /\ ChatPastEmailCheck
    /\ Prop(req.body, "message") = Num(42)
    /\ pc = "unanswered"
    /\ ~alive

\* the four credential flags of a /health response
HealthFlags(body) ==
    <<body.pineconeConfig.transcripts.apiKey.isSet,
      body.pineconeConfig.transcripts.indexHost.isSet,
      body.pineconeConfig.flintOs.apiKey.isSet,
      body.pineconeConfig.flintOs.indexHost.isSet>>

\* C14: in both revisions and in every environment, GET /health is answered
\* at once with 200, status OK and the block of configured flags, each flag
\* telling whether its variable holds a non-empty value, and no outbound call
\* is made.
C14_HealthAlwaysOk ==
    req.route = "GET /health" =>
        /\ pc = "done"
        /\ alive
        /\ outbound = <<>>
        /\ Len(replies) = 1
        /\ replies[1].status = 200
        /\ replies[1].body.status = "OK"
        /\ {"pineconeConfig", "configuration"} \subseteq DOMAIN replies[1].body
        /\ HealthFlags(replies[1].body) =
               <<BoundNonEmpty("PINECONE_API_KEY"), BoundNonEmpty("PINECONE_INDEX_HOST"),
                 BoundNonEmpty("FLINT_OS_PINECONE_API_KEY"),
                 BoundNonEmpty("FLINT_OS_PINECONE_INDEX_HOST")>>
        /\ replies[1].body.configuration.chat_webhook_configured =
               BoundNonEmpty("MAKE_CHAT_WEBHOOK_URL")

C14_Witness ==
    /\ req.route = "GET /health"
    /\ rev = "index.js"
    /\ pc = "done"
    /\ ~BoundNonEmpty("PINECONE_API_KEY")
    /\ ~BoundNonEmpty("PINECONE_INDEX_HOST")
    /\ replies[1].status = 200
    /\ HealthFlags(replies[1].body) = <<FALSE, FALSE, FALSE, FALSE>>
    /\ outbound = <<>>

\* the provider call of the request in hand has resolved (a 2xx response)
ProviderResolved ==
    /\ pc = "done"
    /\ Called
    /\ "settled" \in DOMAIN outbound[1]
    /\ outbound[1].settled.kind = "resolved"

\* the body of that response
ProviderData == outbound[1].settled.data

\* the number of entries of result.hits in a provider body, 0 when absent
HitCount(data) ==
    IF /\ data.t = "object"
       /\ "result" \in DOMAIN data.o
       /\ data.o.result.t = "object"
       /\ "hits" \in DOMAIN data.o.result.o
       /\ data.o.result.o.hits.t = "array"
    THEN Len(data.o.result.o.hits.a)
    ELSE 0

\* the metadata block echoes the request, defaults applied, and counts the hits
MetadataEchoes ==
    /\ "metadata" \in DOMAIN replies[1].body
    /\ {"search_type", "namespace", "top_k", "total_results"}
           \subseteq DOMAIN replies[1].body.metadata
    /\ replies[1].body.metadata.search_type = SearchTypeOf(req)
    /\ replies[1].body.metadata.namespace =
           (IF req.namespace = Undef THEN Str(DefaultNamespace) ELSE req.namespace)
    /\ replies[1].body.metadata.top_k =
           (IF req.top_k = Undef THEN Num(DefaultTopK) ELSE req.top_k)
    /\ replies[1].body.metadata.total_results = Num(HitCount(ProviderData))

\* the top-level fields of the provider body, but for those named in `but`,
\* are in the response as the provider gave them
FieldsKept(but) ==
    \A k \in DOMAIN Spread(ProviderData) \ but :
        k \in DOMAIN replies[1].body /\ replies[1].body[k] = Spread(ProviderData)[k]

\* C15 as stated: every resolved provider call is answered 200 with every
\* top-level field of the provider body unchanged and the metadata block.
C15_Original ==
    (rev = "part_002" /\ ProviderResolved) =>
        /\ replies[1].status = 200
        /\ FieldsKept({})
        /\ MetadataEchoes

\* C15, amended: in the production revision a resolved provider call whose
\* body is not null is answered 200 with every top-level field of the body
\* other than `metadata` unchanged, and with the server's metadata block in
\* `metadata` (search_type, namespace and top_k as the request gave them,
\* defaults applied, total_results the number of entries of result.hits, 0
\* when absent) in the place of any `metadata` of the provider; a null body
\* is answered 500 with the error's message.
C15_SuccessAugmented ==
    (rev = "part_002" /\ ProviderResolved) =>
        /\ Len(replies) = 1
        /\ IF ProviderData.t = "null"
           THEN replies[1].status = 500 /\ "message" \in DOMAIN replies[1].body
           ELSE /\ replies[1].status = 200
                /\ FieldsKept({"metadata"})
                /\ MetadataEchoes

C15_Witness ==
    /\ rev = "part_002"
    /\ ProviderResolved
    /\ "metadata" \in DOMAIN Spread(ProviderData)
    /\ req.top_k = Num(TopKMax + 1)
    /\ replies[1].status = 200
    /\ replies[1].body.result = ProviderData.o.result
    /\ replies[1].body.metadata.top_k = Num(TopKMax + 1)
    /\ replies[1].body.metadata.total_results = Num(1)

\* the root of the payload sent
SentRoot == outbound[1].payload.o

FlintPastEmailCheck(r) ==
    /\ rev = r
    /\ req.route \in {"GET /api/recent", "POST /api/search"}
    /\ Truthy(req.email)
    /\ EndsWith(req.email.s,
                IF BoundNonEmpty("ALLOWED_EMAIL_DOMAIN") THEN env["ALLOWED_EMAIL_DOMAIN"]
                ELSE IF r = "index.js" THEN FlintBuilders ELSE YourCompany)

\* the Pinecone call of index.js, the second of the request, has failed with
\* an HTTP response
PineconeHttpError ==
    /\ FlintPastEmailCheck("index.js")
    /\ pc = "done"
    /\ Len(outbound) = 2
    /\ "settled" \in DOMAIN outbound[2]
    /\ outbound[2].settled.kind = "rejected"
    /\ Truthy(outbound[2].settled.failure.response)

PineconeErrorStatus == outbound[2].settled.failure.response.o.status.n

PineconeErrorBody == outbound[2].settled.failure.response.o.data

\* C17, as the claim states it: in index.js, whatever the status S of the
\* provider's error response, the client of /api/search and /api/recent
\* receives S, with the provider's body under `details`.
C17_Original ==
    PineconeHttpError =>
        /\ replies[1].status = PineconeErrorStatus
        /\ "details" \in DOMAIN replies[1].body
        /\ replies[1].body.details = PineconeErrorBody

\* what the handlers do instead: the status 422 alone is passed on with the
\* body; any other status is answered 500 with the error's message and
\* without the body
C17_Only422PassedOn ==
    PineconeHttpError =>
        IF PineconeErrorStatus = 422
        THEN /\ replies[1].status = 422
             /\ replies[1].body.details = PineconeErrorBody
        ELSE /\ replies[1].status = 500
             /\ DOMAIN replies[1].body = {"error", "message"}
             /\ replies[1].body.message = outbound[2].settled.failure.message

C17_Witness ==
    /\ PineconeHttpError
    /\ req.route = "POST /api/search"
    /\ PineconeErrorStatus = 404
    /\ PineconeErrorBody = Obj([message |-> Lit("bad filter")])
    /\ replies[1].status = 500
    /\ "details" \notin DOMAIN replies[1].body

\* the names of the two chains, in order
FlintKeyChain ==
    <<"FLINT_OS_PINECONE_API_KEY", "PINECONE_API_KEY", "PINECONE_KEY", "API_KEY">>

FlintHostChain ==
    <<"FLINT_OS_PINECONE_INDEX_HOST", "PINECONE_INDEX_HOST", "PINECONE_HOST", "INDEX_HOST">>

\* the value of the first name of a chain bound to a non-empty value, <<>>
\* when the whole chain is empty
FirstOf(chain) == IF FirstBound(chain) = "none" THEN <<>> ELSE env[FirstBound(chain)]

\* a FLINT OS request of the production revision has come to the point where
\* the credentials are looked at: past the middleware, with a query (search)
\* and filters that are not null (search) or a number of days (recent), and
\* the handler has run to its await or to a response before it
FlintCredentialsUsed ==
    /\ FlintPastEmailCheck("part_002")
    /\ pc \in {"awaiting", "done"}
    /\ pc = "done" => outbound = <<>>
    /\ req.route = "POST /api/search" =>
          Truthy(Prop(req.body, "query")) /\ Prop(req.body, "filters").t # "null"
    /\ req.route = "GET /api/recent" => ValidDate(Default(Prop(req.body, "days"), Num(30)))

FlintMissingReplied ==
    /\ replies # <<>>
    /\ replies[1].status = 500
    /\ replies[1].body.error = "Pinecone configuration missing"

FlintCalledWith(key, host) ==
    /\ Called
    /\ outbound[1].apiKey = Str(key)
    /\ outbound[1].url = HttpsPrefix \o host \o RecordsPath \o DefaultNamespace \o SearchPath

FlintUnset ==
    /\ FlintPastEmailCheck("index.js")
    /\ ~BoundNonEmpty("FLINT_OS_PINECONE_API_KEY") \/ ~BoundNonEmpty("FLINT_OS_PINECONE_INDEX_HOST")

\* C19, as the claim states it: in index.js such a request ends in an error
\* response, and no outbound call is made for it, neither the embedding call
\* nor the Pinecone call.
C19_Original ==
    FlintUnset =>
        /\ outbound = <<>>
        /\ pc # "idle"
        /\ pc = "done" => replies[1].status >= 400

\* what holds instead: no call goes to Pinecone and the response is an
\* error, but the embedding call goes out whenever OPENAI_API_KEY is set and
\* the query is a string
C19_NoPineconeCall ==
    FlintUnset =>
        /\ \A i \in 1..Len(outbound) : outbound[i].url = EmbeddingsUrl
        /\ Len(outbound) <= 1
        /\ pc \in {"awaiting", "done"}
        /\ pc = "done" => replies[1].status >= 400
        /\ (BoundNonEmpty("OPENAI_API_KEY") /\ req.route = "GET /api/recent") => Called

C19_Witness ==
    /\ FlintUnset
    /\ "FLINT_OS_PINECONE_API_KEY" \notin DOMAIN env
    /\ req.route = "POST /api/search"
    /\ pc = "done"
    /\ Len(outbound) = 1
    /\ outbound[1].url = EmbeddingsUrl
    /\ outbound[1].settled.kind = "resolved"
    /\ replies[1].status = 500
    /\ replies[1].body.message = FlintNotFound.message

\* the request asks for reranking: its rerank is an object with a model
AsksRerank(body) == Truthy(body.rerank) /\ Truthy(Prop(body.rerank, "model"))

\* the request's rerank gives the key a value (not 0, not the empty string)
Supplied(body, key) == Truthy(Prop(body.rerank, key))

\* the rerank block of the payload sent
SentRerank == SentRoot.rerank.o

\* C21: the payload carries a rerank block exactly when the request's rerank
\* is present with a model; the block's model is rerank.model, its top_n is
\* rerank.top_n when supplied and min(top_k, 100) otherwise (top_k 10 when the
\* request gives none), and its rank_fields is rerank.rank_fields when
\* supplied and the request's fields otherwise (the empty list when it gives
\* none).
C21_RerankBlock ==
    (rev \in {"part_002", "part_000"} /\ Called /\ IntegerOrAbsent(req.top_k)) =>
        /\ "rerank" \in DOMAIN SentRoot <=> AsksRerank(req)
        /\ AsksRerank(req) =>
              /\ SentRoot.rerank.t = "object"
              /\ {"model", "top_n", "rank_fields"} \subseteq DOMAIN SentRerank
              /\ SentRerank.model = req.rerank.o.model
              /\ SentRerank.top_n =
                    IF Supplied(req, "top_n") THEN req.rerank.o.top_n
                    ELSE LET top_k == IF req.top_k = Undef THEN DefaultTopK ELSE req.top_k.n
                         IN  Num(IF top_k <= 100 THEN top_k ELSE 100)
              /\ SentRerank.rank_fields =
                    IF Supplied(req, "rank_fields") THEN req.rerank.o.rank_fields
                    ELSE IF req.fields = Undef THEN Arr(<<>>)
                    ELSE req.fields

C21_Witness ==
    /\ rev = "part_002"
    /\ Called
    /\ AsksRerank(req)
    /\ ~Supplied(req, "top_n")
    /\ ~Supplied(req, "rank_fields")
    /\ req.top_k = Num(RerankTopNMax + 50)
    /\ req.fields # Undef
    /\ SentRerank.top_n = Num(100)
    /\ SentRerank.rank_fields = req.fields

\* C22: the rerank block carries a `query` exactly when search_type is vector
\* or id and the request supplied rerank.query, and it is then rerank.query
\* as given; for a text search the block carries none.
C22_RerankQuery ==
    (rev \in {"part_002", "part_000"} /\ Called /\ AsksRerank(req)) =>
        /\ SentRoot.rerank.t = "object"
        /\ "query" \in DOMAIN SentRerank <=>
              (SearchTypeOf(req) \in {Str(Vector), Str(Id)} /\ Supplied(req, "query"))
        /\ "query" \in DOMAIN SentRerank => SentRerank.query = req.rerank.o.query
        /\ SearchTypeOf(req) = Str(Text) => "query" \notin DOMAIN SentRerank

C22_Witness ==
    /\ rev = "part_002"
    /\ Called
    /\ AsksRerank(req)
    /\ SearchTypeOf(req) = Str(Text)
    /\ Supplied(req, "query")
    /\ "query" \notin DOMAIN SentRerank

\* the namespaces of the requests, as they are to stand in the URL
UrlNamespace(body) ==
    CASE body.namespace = Undef -> DefaultNamespace
      [] body.namespace = Str(<<"a", " ", "b">>) -> <<"a", "%", "2", "0", "b">>
      [] body.namespace = Str(<<"d", "/", "1">>) -> <<"d", "%", "2", "F", "1">>

\* C23: the URL called by the production revision is
\* https://{normalized host}/records/namespaces/{URL-encoded namespace}/search,
\* the namespace being the request's, or "__default__" when it gives none;
\* the payload holds no namespace, neither at its root nor in its query.
C23_UrlAndNamespace ==
    (rev = "part_002" /\ Called
        /\ req.namespace \in {Undef, Str(<<"a", " ", "b">>), Str(<<"d", "/", "1">>)}) =>
        /\ outbound[1].url =
              HttpsPrefix \o ExpectedHost(rev) \o RecordsPath \o UrlNamespace(req) \o SearchPath
        /\ "namespace" \notin DOMAIN SentRoot
        /\ "namespace" \notin DOMAIN SentQuery

C23_Witness ==
    /\ rev = "part_002"
    /\ Called
    /\ req.namespace = Str(<<"d", "/", "1">>)
    /\ outbound[1].url =
          HttpsPrefix \o HostA \o RecordsPath \o <<"d", "%", "2", "F", "1">> \o SearchPath

\* the success response of the production revision, with its metadata block
SuccessReplied ==
    /\ rev = "part_002"
    /\ ProviderResolved
    /\ replies[1].status = 200
    /\ "metadata" \in DOMAIN replies[1].body
    /\ "has_reranking" \in DOMAIN replies[1].body.metadata

\* C25, as the claim states it: in the success response, metadata.has_reranking
\* is true if and only if the payload sent held a rerank block.
C25_Original ==
    SuccessReplied =>
        (replies[1].body.metadata.has_reranking <=> "rerank" \in DOMAIN SentRoot)

\* what holds instead: has_reranking tells whether the request gave a rerank
\* object at all; it is true whenever a block was sent, and also when the
\* request's rerank has no model and no block was sent
C25_HasRerankingOfRequest ==
    SuccessReplied =>
        /\ replies[1].body.metadata.has_reranking <=> Truthy(req.rerank)
        /\ "rerank" \in DOMAIN SentRoot => replies[1].body.metadata.has_reranking

C25_Witness ==
    /\ SuccessReplied
    /\ req.rerank = Obj([top_n |-> Num(3)])
    /\ "rerank" \notin DOMAIN SentRoot
    /\ replies[1].body.metadata.has_reranking

\* the request in hand was answered with the configuration-missing 500
MissingReplied ==
    /\ replies # <<>>
    /\ replies[1].status = 500
    /\ "error" \in DOMAIN replies[1].body
    /\ replies[1].body.error = "Pinecone configuration missing"

\* the host of the URL called: what stands between "https://" and the path
UrlHostEmpty == outbound[1].url[Len(HttpsPrefix) + 1] = "/"

SomeBound(names) == \E i \in 1..Len(names) : BoundNonEmpty(names[i])

\* C26, as the claim states it: with one candidate key variable and one
\* candidate host variable bound to non-empty values, the request is not
\* answered with the configuration-missing 500, and the host of the URL
\* called is non-empty.
C26_Original ==
    (rev \in {"part_002", "part_003"} /\ pc # "idle"
        /\ SomeBound(KeyCandidates(rev)) /\ SomeBound(HostCandidates(rev))) =>
        /\ ~MissingReplied
        /\ Called => ~UrlHostEmpty

\* C26: with a candidate key variable bound to a non-empty value and the
\* first non-empty candidate host variable holding more than "https://", the
\* request is not answered with the configuration-missing 500; when that
\* first host is exactly "https://" it is, whatever the later candidates
\* hold; and the host of every URL called is non-empty.
C26_UsableCredentials ==
    (rev \in {"part_002", "part_003"} /\ pc # "idle") =>
        /\ (SomeBound(KeyCandidates(rev)) /\ ExpectedHost(rev) # <<>>) => ~MissingReplied
        /\ (SomeBound(HostCandidates(rev)) /\ ExpectedHost(rev) = <<>>) =>
              MissingReplied /\ ~Called
        /\ Called => ~UrlHostEmpty

C26_Witness ==
    /\ rev = "part_002"
    /\ ~BoundNonEmpty("PINECONE_API_KEY")
    /\ BoundNonEmpty("API_KEY")
    /\ BoundNonEmpty("PINECONE_INDEX_HOST")
    /\ Called
    /\ ~MissingReplied
    /\ ~UrlHostEmpty

\* the routes registered behind validateEmailDomain
GuardedRoutes ==
    {"GET /api/recent", "POST /api/search", "POST /api/chat", "GET /api/recent-notion",
     "POST /api/search-notion"}

\* ALLOWED_EMAIL_DOMAIN, or the default built into the revision
AllowedDomain ==
    IF BoundNonEmpty("ALLOWED_EMAIL_DOMAIN") THEN env["ALLOWED_EMAIL_DOMAIN"]
    ELSE IF rev = "index.js" THEN FlintBuilders
    ELSE YourCompany

\* the x-user-email header of the request in hand is there and ends with the
\* allowed domain
EmailAllowed ==
    /\ req.email.t = "string"
    /\ req.email.s # <<>>
    /\ Len(req.email.s) >= Len(AllowedDomain)
    /\ \A i \in 1..Len(AllowedDomain) :
          req.email.s[Len(req.email.s) - Len(AllowedDomain) + i] = AllowedDomain[i]

\* C24: on every guarded route, a request whose x-user-email is absent or
\* does not end with the allowed domain is answered 401 and nothing else
\* happens for it: no call goes out; any other request reaches its handler
\* (it is never answered 401), and the handler has the header's value as
\* req.userEmail, which the chat handlers pass on as user_email.
C24_EmailGate ==
    req.route \in GuardedRoutes =>
        IF ~EmailAllowed
        THEN /\ pc = "done"
             /\ Len(replies) = 1
             /\ replies[1].status = 401
             /\ replies[1].body.error = "Unauthorized domain"
             /\ outbound = <<>>
        ELSE /\ replies # <<>> => replies[1].status # 401
             /\ (req.route = "POST /api/chat" /\ Called) =>
                   outbound[1].payload.o.user_email = req.email

C24_Witness ==
    /\ rev = "index.js"
    /\ req.route = "GET /api/recent-notion"
    /\ BoundNonEmpty("ALLOWED_EMAIL_DOMAIN")
    /\ req.email = Str(<<"u">> \o FlintBuilders)
    /\ ~EmailAllowed
    /\ replies # <<>>
    /\ replies[1].status = 401
    /\ outbound = <<>>

\* a request for a vector search is in hand
VectorAsked == pc # "idle" /\ req.search_type = Str(Vector)

\* every element of the query array is a number
AllNumbers == req.query.t = "array" /\ \A i \in 1..Len(req.query.a) : req.query.a[i].t = "number"

\* C27, as the claim states it: for a vector search, a call is made only when
\* query is a non-empty array of numbers, and a request whose query is the
\* empty array is answered 400 (or the configuration-missing 500 that comes
\* before it) and no call is made.
C27_Original ==
    VectorAsked =>
        /\ Called => (AllNumbers /\ req.query.a # <<>>)
        /\ (req.query = Arr(<<>>) /\ pc = "done") =>
              (~Called /\ replies[1].status \in {400, 500})

\* C27, as the code has it: for a vector search, a call is made only when query
\* is an array whose elements are all numbers, and the values sent are that
\* array; the empty array passes `!query` and the element test.
C27_ArrayOfNumbers ==
    (VectorAsked /\ Called) =>
        /\ AllNumbers
        /\ {"query"} \subseteq DOMAIN SentRoot
        /\ {"vector"} \subseteq DOMAIN SentQuery
        /\ SentQuery.vector = Obj([values |-> req.query])

C27_Witness ==
    /\ rev = "part_002"
    /\ VectorAsked
    /\ req.query = Arr(<<>>)
    /\ Called
    /\ SentQuery.vector = Obj([values |-> Arr(<<>>)])

\* the webhook has answered the chat call and the handler has finished
ChatAnswered ==
    /\ req.route = "POST /api/chat"
    /\ pc = "done"
    /\ Called
    /\ {"settled"} \subseteq DOMAIN outbound[1]
    /\ outbound[1].settled.kind = "resolved"

\* the body of the webhook's reply
ChatData == outbound[1].settled.data

ChatFields == <<"response", "message", "reply">>

\* the fields of the reply body that hold a truthy value, by their rank
TruthyChatFields ==
    {i \in 1..Len(ChatFields) :
        /\ ChatData.t = "object"
        /\ ChatFields[i] \in DOMAIN ChatData.o
        /\ Truthy(ChatData.o[ChatFields[i]])}

\* the text the precedence of the claim picks from the reply body
ChatPick ==
    IF ChatData.t = "string" THEN ChatData
    ELSE IF TruthyChatFields # {}
    THEN ChatData.o[ChatFields[CHOOSE i \in TruthyChatFields :
                                  \A j \in TruthyChatFields : i <= j]]
    ELSE JsonStringify(ChatData)

ChatPicked ==
    /\ Len(replies) = 1
    /\ replies[1].status = 200
    /\ {"response"} \subseteq DOMAIN replies[1].body
    /\ replies[1].body.response = ChatPick

\* C28, as the claim states it: every successful webhook reply, a null body
\* included, is answered 200 with the text the precedence picks: the body when
\* it is a string, else its first truthy field of response, message, reply,
\* else the JSON text of the body.
C28_Original == ChatAnswered => ChatPicked

\* C28, as the code has it: a reply body other than null is answered 200 with
\* the text the precedence picks; a null body makes `response.data.response`
\* throw, and the catch block answers 500 "Chat service unavailable".
C28_PrecedenceUnlessNull ==
    ChatAnswered =>
        IF ChatData.t \in {"null", "undefined"}
        THEN /\ Len(replies) = 1
             /\ replies[1].status = 500
             /\ replies[1].body.error = "Chat service unavailable"
        ELSE ChatPicked

C28_Witness ==
    /\ ChatAnswered
    /\ ChatData = Null
    /\ replies[1].status = 500
    /\ replies[1].body.error = "Chat service unavailable"

\* the other one of the two full revisions
Twin == IF rev = "part_000" THEN "part_002" ELSE "part_000"

\* what the other revision makes of the request in hand, in the same environment
TwinOutcome == HandlerOf(Twin, req)

\* what the other revision answers when it makes no call
TwinReply ==
    IF TwinOutcome.kind = "throw" THEN MapErrorOf(Twin, TwinOutcome.error) ELSE TwinOutcome

\* PINECONE_API_KEY is set, and PINECONE_INDEX_HOST is set without a scheme
PlainEnv ==
    /\ BoundNonEmpty("PINECONE_API_KEY")
    /\ BoundNonEmpty("PINECONE_INDEX_HOST")
    /\ ~StartsWith(env["PINECONE_INDEX_HOST"], HttpsPrefix)

\* a request has been handled by one of the two full revisions
Twinned == pc # "idle" /\ rev \in {"part_000", "part_002"} /\ PlainEnv

\* both revisions decide alike: a call by both, or the same status by both
SameDecision ==
    IF Called THEN TwinOutcome.kind = "call"
    ELSE /\ TwinOutcome.kind # "call"
         /\ replies[1].status = TwinReply.status

\* a payload without the top_k of its root
RootTopKDropped(payload) == Obj([k \in DOMAIN payload.o \ {"top_k"} |-> payload.o[k]])

\* C29, as the claim states it: with PINECONE_API_KEY and a scheme-less
\* PINECONE_INDEX_HOST set, part_000 and part_002 decide alike on every
\* request and, when they call the provider, send the same URL and the same
\* payload.
C29_Original ==
    Twinned =>
        /\ SameDecision
        /\ Called =>
              /\ {"url", "payload"} \subseteq DOMAIN TwinOutcome
              /\ outbound[1].url = TwinOutcome.url
              /\ outbound[1].payload = TwinOutcome.payload

\* C29, as the code has it: with PINECONE_API_KEY and a scheme-less
\* PINECONE_INDEX_HOST set, part_000 and part_002 decide alike on every
\* request and, when they call the provider, send the same URL with the same
\* key and payloads that differ in one place only: part_000 sends the clamped
\* top_k at the root of the payload as well as in the query, part_002 in the
\* query only.
C29_SameButRootTopK ==
    Twinned =>
        /\ SameDecision
        /\ Called =>
              /\ {"url", "payload", "apiKey"} \subseteq DOMAIN TwinOutcome
              /\ outbound[1].url = TwinOutcome.url
              /\ outbound[1].apiKey = TwinOutcome.apiKey
              /\ RootTopKDropped(outbound[1].payload) = RootTopKDropped(TwinOutcome.payload)
              /\ LET mine == outbound[1].payload.o
                     other == TwinOutcome.payload.o
                     old == IF rev = "part_000" THEN mine ELSE other
                     new == IF rev = "part_000" THEN other ELSE mine
                 IN  /\ "top_k" \in DOMAIN old
                     /\ "top_k" \notin DOMAIN new
                     /\ old.top_k = old.query.o.top_k

C29_Witness ==
    /\ Twinned
    /\ rev = "part_000"
    /\ Called
    /\ req.rerank # Undef
    /\ req.filters # Undef
    /\ outbound[1].url = TwinOutcome.url
    /\ outbound[1].payload # TwinOutcome.payload
    /\ RootTopKDropped(outbound[1].payload) = TwinOutcome.payload

\* GET /test-namespaces has been asked of the production revision
TestAsked == rev = "part_002" /\ req.route = "GET /test-namespaces" /\ pc # "idle"

\* POST /pinecone-query would resolve a key and a host in this environment
QueryResolves == Truthy(PineconeApiKey) /\ Truthy(PineconeIndexHost)

NotConfiguredReplied ==
    /\ replies # <<>>
    /\ replies[1].status = 500
    /\ replies[1].body.error = "Pinecone not configured"

\* the URL /pinecone-query would call for a namespace
QueryUrl(namespace) ==
    PineconeApiUrl(PineconeIndexHost, EncodeURIComponent(Str(namespace)).s)

\* C30, as the claim states it: wherever /pinecone-query resolves a key K and
\* a normalized host H, /test-namespaces does not answer "Pinecone not
\* configured" and sends each of its calls to host H with key K.
C30_Original ==
    (TestAsked /\ QueryResolves) =>
        /\ ~NotConfiguredReplied
        /\ \A i \in 1..Len(outbound) :
              /\ outbound[i].url = QueryUrl(namespaces[i])
              /\ outbound[i].apiKey = PineconeApiKey

\* C30, as the code has it: /test-namespaces reads PINECONE_API_KEY and
\* PINECONE_INDEX_HOST alone and as they are: it answers "Pinecone not
\* configured" exactly when one of the two is unset or empty, and sends its
\* calls to the value of PINECONE_INDEX_HOST, a leading "https://" included.
C30_OwnVariablesOnly ==
    TestAsked =>
        /\ NotConfiguredReplied <=>
              (~BoundNonEmpty("PINECONE_API_KEY") \/ ~BoundNonEmpty("PINECONE_INDEX_HOST"))
        /\ \A i \in 1..Len(outbound) :
              /\ outbound[i].url =
                    HttpsPrefix \o env["PINECONE_INDEX_HOST"] \o RecordsPath
                    \o EncodeURIComponent(Str(namespaces[i])).s \o SearchPath
              /\ outbound[i].apiKey = Str(env["PINECONE_API_KEY"])

C30_Witness ==
    /\ TestAsked
    /\ QueryResolves
    /\ ~BoundNonEmpty("PINECONE_API_KEY")
    /\ PineconeApiKey = Str(env["PINECONE_KEY"])
    /\ NotConfiguredReplied
    /\ outbound = <<>>

====
